---- MODULE Spec2Model ----
(***************************************************************************)
(* State-machine model of the G-code movement frontend of klipper-for-cnc  *)
(* (klippy/extras/gcode_move.py, class GCodeMove) together with the part   *)
(* of its collaborators (toolhead, G-code dispatcher) that the frontend    *)
(* talks to.                                                               *)
(*                                                                         *)
(* Numbers.  The program computes with Python floats.  The model computes  *)
(* with exact rationals, a pair <<n, d>> in lowest terms with d > 0, so    *)
(* that every product and quotient of the code (extrude_factor,           *)
(* speed_factor, M220, M221) is computed as the code computes it and not   *)
(* assumed to cancel.  Floating-point rounding error is outside the model. *)
(*                                                                         *)
(* Indices.  Python lists are 0-based, TLA+ sequences 1-based: slot i of   *)
(* a Python position vector is slot i+1 here; Python's [-1] is [pos_length].*)
(***************************************************************************)
EXTENDS Integers, Sequences, FiniteSets, TLC

(***************************************************************************)
(* Exact rational arithmetic standing for the float arithmetic of the code *)
(***************************************************************************)
Abs(n) == IF n < 0 THEN -n ELSE n

RECURSIVE GCD(_, _)
GCD(a, b) == IF b = 0 THEN a ELSE GCD(b, a % b)

\* The rational n/d in lowest terms, denominator positive (d # 0).
Rat(n, d) ==
    LET g == GCD(Abs(n), Abs(d))
        s == IF d < 0 THEN -1 ELSE 1
    IN  <<(s * n) \div g, (s * d) \div g>>

R(n) == <<n, 1>>
RAdd(a, b) == Rat(a[1] * b[2] + b[1] * a[2], a[2] * b[2])
RSub(a, b) == Rat(a[1] * b[2] - b[1] * a[2], a[2] * b[2])
RMul(a, b) == Rat(a[1] * b[1], a[2] * b[2])
\* Division; the callers guarantee b # 0 as the code's "above=0." checks do.
RDiv(a, b) == Rat(a[1] * b[2], a[2] * b[1])
RLeqZero(a) == a[1] <= 0

\* "%.3f" % x : x rounded to a whole number of thousandths, ties to even,
\* returned as that number of thousandths (7000 stands for "7.000").
Format3(a) ==
    LET num == a[1] * 1000
        q   == num \div a[2]
        rem == num - q * a[2]
    IN  IF 2 * rem < a[2] THEN q
        ELSE IF 2 * rem > a[2] THEN q + 1
        ELSE IF q % 2 = 0 THEN q ELSE q + 1

(***************************************************************************)
(* Bounds of the model                                                     *)
(***************************************************************************)
\* Number of G-code commands dispatched in one run.
MaxSteps == 3

(***************************************************************************)
(* Command parameters.  A parameter is absent, a number, or text that      *)
(* float() rejects.                                                        *)
(***************************************************************************)
Absent == [k |-> "absent", v |-> 0]
Num(v) == [k |-> "num", v |-> v]
Bad    == [k |-> "bad", v |-> 0]

Given(tok) == tok.k # "absent"

ParamLetters == {"X", "Y", "Z", "A", "B", "C", "E", "F", "S", "MOVE",
                 "MOVE_SPEED", "X_ADJUST", "Y_ADJUST", "Z_ADJUST", "E_ADJUST"}

\* gcmd.get_command_parameters(): every letter not given is absent.
Params(f) == [l \in ParamLetters |-> IF l \in DOMAIN f THEN f[l] ELSE Absent]
NoParams == [l \in ParamLetters |-> Absent]

VARIABLES
    axis_names,              \* config: the [printer] axis letters
    relative_e_restore,      \* config: [printer] relative_e_restore
    is_printer_ready,
    absolute_coord,
    absolute_extrude,
    base_position,
    last_position,
    homing_position,
    speed,
    speed_factor,
    extrude_factor,
    saved_states,            \* NAME -> saved state
    move_with_transform,     \* "none" | "toolhead" | a transform
    position_with_transform, \* "default" | "toolhead" | a transform
    commanded_pos,           \* toolhead: commanded position
    move_count,              \* toolhead: number of move() calls received
    last_move,               \* toolhead: arguments of the last move() call
    klippy_state,            \* host: "config" | "ready" | "shutdown"
    pending_error,           \* dispatcher: error raised by the running command
    last_cmd,                \* history: the operation of the last step
    steps,                   \* history: commands dispatched so far
    can_home,                \* config: the active extruder has an endstop
    limits,                  \* kinematics: (low, high) per rail slot
    motor_off_count,         \* stepper_enable: motor_off() calls received
    g28,                     \* PrinterHoming: the G28 in progress
    extruders,               \* toolhead: the active extruder, and the
                             \* last_position of every PrinterExtruder
    stepper_positions,       \* HomingMove: the StepperPosition list
    debuginput,              \* start_args: input is replayed from a file
    e_limits,                \* ExtruderStepper: limits[0] of the extruder
    limits_enabled,          \* toolhead: are_limits_enabled()
    hm,                      \* HomingMove: the homing_move() in progress
    hr                       \* Homing: the kin.home() in progress

vars == <<axis_names, relative_e_restore, is_printer_ready, absolute_coord,
          absolute_extrude, base_position, last_position, homing_position,
          speed, speed_factor, extrude_factor, saved_states,
          move_with_transform, position_with_transform, commanded_pos,
          move_count, last_move, klippy_state, pending_error, last_cmd,
          steps, can_home, limits, motor_off_count, g28, extruders,
          stepper_positions, debuginput, e_limits, limits_enabled, hm,
          hr>>

config == <<axis_names, relative_e_restore>>
toolhead == <<commanded_pos, move_count, last_move, extruders>>
modes == <<absolute_coord, absolute_extrude>>
factors == <<speed, speed_factor, extrude_factor>>
transform == <<move_with_transform, position_with_transform>>
hmove == <<stepper_positions, debuginput, hm, hr>>
machine == <<can_home, limits, motor_off_count, g28, hmove, e_limits,
             limits_enabled>>

(***************************************************************************)
(* GCodeMove.__init__: axis layout                                         *)
(***************************************************************************)
axis_triplets == <<<<"X", "Y", "Z">>, <<"A", "B", "C">>, <<"U", "V", "W">>>>
axis_letters == axis_triplets[1] \o axis_triplets[2] \o axis_triplets[3]

Range(s) == {s[i] : i \in DOMAIN s}

\* 3 * (number of triplets that share a letter with axis_names)
min_axes == 3 * Cardinality({t \in DOMAIN axis_triplets :
                               Range(axis_triplets[t]) \cap axis_names # {}})
pos_length == min_axes + 1

\* list(self.axis_map): the letters in slot order, "E" last.
axis_list == SubSeq(axis_letters, 1, min_axes) \o <<"E">>
axis_map(a) == CHOOSE i \in DOMAIN axis_list : axis_list[i] = a

Zeros == [i \in 1..pos_length |-> R(0)]

AxisConfigs == {{"X", "Y", "Z"}, {"X", "Y"}}

\* self.limits = [(1.0, -1.0)] * 3: no axis is homed
unhomed == <<R(1), R(-1)>>
no_limits == [i \in 1..3 |-> unhomed]

\* No homing_move() is running.
hm_idle == [pc |-> "idle"]

\* Homing.__init__: no axis is being homed, trigger_mcu_pos = {} and
\* adjust_pos = {}
hr_idle == [pc |-> "idle", axes |-> <<>>, next |-> 1, retract_dist |-> R(0),
            calls |-> <<>>, trigger_mcu_pos |-> {},
            adjust_pos |-> [i \in 1..3 |-> R(0)],
            error |-> [kind |-> "none", name |-> ""]]

\* No G28 is running.
g28_idle == [active |-> FALSE, letters |-> {}, axes |-> <<>>, next |-> 1,
             homed |-> {}]

\* The [extruder] sections of the configuration.
ExtruderNames == {"extruder", "extruder1"}

\* PrinterExtruder.__init__: last_position = 0, and the section named
\* 'extruder' becomes the active extruder of the toolhead.
extruders_init == [active |-> "extruder",
                   last_position |-> [n \in ExtruderNames |-> R(0)]]

InitMachine ==
    /\ extruders = extruders_init
    /\ limits = no_limits
    /\ motor_off_count = 0
    /\ g28 = g28_idle
    /\ stepper_positions = <<>>
    /\ debuginput = FALSE
    /\ hm = hm_idle
    /\ hr = hr_idle
    /\ e_limits = unhomed
    /\ limits_enabled = TRUE

InitGCodeMoveOn(configs) ==
    /\ axis_names \in configs
    /\ relative_e_restore \in BOOLEAN
    /\ is_printer_ready = FALSE
    /\ absolute_coord = TRUE
    /\ absolute_extrude = TRUE
    /\ base_position = Zeros
    /\ last_position = Zeros
    /\ homing_position = Zeros
    /\ speed = R(25)
    /\ speed_factor = Rat(1, 60)
    /\ extrude_factor = R(1)
    /\ saved_states = <<>>
    /\ move_with_transform = "none"
    /\ position_with_transform = "default"
    /\ commanded_pos = Zeros
    /\ move_count = 0
    /\ last_move = <<>>
    /\ klippy_state = "config"
    /\ pending_error = "none"
    /\ last_cmd = [name |-> "init"]
    /\ steps = 0

InitGCodeMove == InitGCodeMoveOn(AxisConfigs)

Init ==
    /\ InitGCodeMove
    /\ InitMachine
    /\ can_home = FALSE

(***************************************************************************)
(* Position readers and event handlers                                     *)
(***************************************************************************)
\* The transforms other modules install: layers that shift Z, the first by
\* one unit and the second by two.  t.move(pos, speed) hands
\* transform_move_of(t, pos) to the toolhead, and t.get_position() undoes
\* the shift on the toolhead's position.
Transforms == {"transform", "transform2"}
transform_shift(t) == IF t = "transform2" THEN R(2) ELSE R(1)
transform_move_of(t, pos) ==
    [pos EXCEPT ![3] = RAdd(pos[3], transform_shift(t))]
transform_get_position_of(t, toolhead_pos) ==
    [toolhead_pos EXCEPT ![3] = RSub(toolhead_pos[3], transform_shift(t))]
transform_move(pos) == transform_move_of("transform", pos)
transform_get_position(toolhead_pos) ==
    transform_get_position_of("transform", toolhead_pos)

\* self.position_with_transform() when the toolhead is at toolhead_pos: the
\* default lambda, toolhead.get_position or transform.get_position
position_read_at(reader, toolhead_pos) ==
    CASE reader = "toolhead"  -> toolhead_pos
      [] reader \in Transforms -> transform_get_position_of(reader, toolhead_pos)
      [] OTHER                -> Zeros

position_read(reader) == position_read_at(reader, commanded_pos)

reset_last_position_stale(ready, reader) == last_position

\* The value reset_last_position leaves in last_position.
reset_last_position(ready, reader) ==
    IF ready THEN position_read(reader) ELSE last_position

ready_transform_toolhead(installed) == "toolhead"

\* What _handle_ready routes moves through: the toolhead, unless a transform
\* was installed before (self.move_transform is not None).
ready_transform(installed) ==
    IF installed \in Transforms THEN installed ELSE "toolhead"

\* klippy:ready
handle_ready ==
    /\ klippy_state = "config"
    /\ pending_error = "none"
    /\ klippy_state' = "ready"
    /\ is_printer_ready' = TRUE
    /\ move_with_transform' = ready_transform(move_with_transform)
    /\ position_with_transform' =
           IF move_with_transform \in Transforms
           THEN position_with_transform
           ELSE ready_transform(move_with_transform)
    /\ last_position' = reset_last_position(TRUE, position_with_transform')
    /\ last_cmd' = [name |-> "ready"]
    /\ UNCHANGED <<machine, config, modes, base_position, homing_position, factors,
                   saved_states, toolhead, pending_error, steps>>

handle_shutdown_resetting ==
    /\ klippy_state = "ready"
    /\ is_printer_ready
    /\ pending_error = "none"
    /\ klippy_state' = "shutdown"
    /\ is_printer_ready' = FALSE
    /\ absolute_coord' = TRUE
    /\ absolute_extrude' = TRUE
    /\ base_position' = Zeros
    /\ last_position' = Zeros
    /\ homing_position' = Zeros
    /\ speed' = R(25)
    /\ speed_factor' = Rat(1, 60)
    /\ extrude_factor' = R(1)
    /\ last_cmd' = [name |-> "shutdown"]
    /\ UNCHANGED <<machine, config, saved_states, transform, toolhead, pending_error,
                   steps>>

\* klippy:shutdown
handle_shutdown ==
    /\ klippy_state = "ready"
    /\ is_printer_ready
    /\ ~g28.active
    /\ pending_error = "none"
    /\ klippy_state' = "shutdown"
    /\ is_printer_ready' = FALSE
    /\ last_cmd' = [name |-> "shutdown"]
    /\ UNCHANGED <<machine, config, modes, base_position, last_position,
                   homing_position, factors, saved_states, transform,
                   toolhead, pending_error, steps>>

\* gcode:command_error, sent by the dispatcher after a command raised.
handle_command_error ==
    /\ pending_error # "none"
    /\ last_position' =
           reset_last_position(is_printer_ready, position_with_transform)
    /\ pending_error' = "none"
    /\ last_cmd' = [name |-> "command_error", error |-> pending_error,
                    stale |-> last_position]
    /\ UNCHANGED <<machine, config, is_printer_ready, modes, base_position,
                   homing_position, factors, saved_states, transform,
                   toolhead, klippy_state, steps>>

\* A command registered with when_not_ready=False that arrives while the
\* printer is not ready is refused by the dispatcher with a command error.
cmd_refused ==
    /\ ~is_printer_ready
    /\ pending_error = "none"
    /\ steps < MaxSteps
    /\ pending_error' = "not_ready"
    /\ last_cmd' = [name |-> "refused"]
    /\ steps' = steps + 1
    /\ UNCHANGED <<machine, config, is_printer_ready, modes, base_position,
                   last_position, homing_position, factors, saved_states,
                   transform, toolhead, klippy_state>>

\* The dispatcher runs a command handler: printer ready, no command running.
CanDispatch ==
    /\ is_printer_ready
    /\ ~g28.active
    /\ pending_error = "none"
    /\ steps < MaxSteps

\* PrinterExtruder.move of the active extruder, which the toolhead calls for
\* a move that displaces E: self.last_position = move.end_pos[-1]
extruder_move(ext, start_pos, end_pos) ==
    IF end_pos[pos_length] = start_pos[pos_length] THEN ext
    ELSE [ext EXCEPT !.last_position[ext.active] = end_pos[pos_length]]

\* toolhead.move(newpos, speed) reached through self.move_with_transform
ToolheadMove(newpos, spd) ==
    LET target == IF move_with_transform \in Transforms
                  THEN transform_move_of(move_with_transform, newpos)
                  ELSE newpos IN
    /\ commanded_pos' = target
    /\ move_count' = move_count + 1
    /\ last_move' = <<target, spd>>
    /\ extruders' = extruder_move(extruders, commanded_pos, target)

(***************************************************************************)
(* G1 / G0                                                                 *)
(***************************************************************************)
G1_axis_swapped(absolute, last, base, v) ==
    IF absolute THEN RAdd(last, v) ELSE RAdd(v, base)

\* One XYZ(ABC) coordinate: relative to the last position, or to the base.
G1_axis(absolute, last, base, v) ==
    IF ~absolute THEN RAdd(last, v) ELSE RAdd(v, base)

G1_extrude_own_flag(abs_coord, abs_extrude, last, base, v) ==
    IF ~abs_extrude THEN RAdd(last, v) ELSE RAdd(v, base)

\* The extruder coordinate; v is already scaled by extrude_factor.
G1_extrude(abs_coord, abs_extrude, last, base, v) ==
    IF ~abs_coord \/ ~abs_extrude THEN RAdd(last, v) ELSE RAdd(v, base)

G1_speed_invalid_negative(gcode_speed) == gcode_speed[1] < 0

\* The feed rate check of G1.
G1_speed_invalid(gcode_speed) == RLeqZero(gcode_speed)

\* The loop over the non-extruder slots, from slot pos on, stopping at the
\* first error; lp is last_position as updated so far.
RECURSIVE G1_axes(_, _, _)
G1_axes(params, pos, lp) ==
    IF pos > min_axes THEN [last |-> lp, err |-> "none"]
    ELSE LET axis == axis_list[pos] IN
         IF ~Given(params[axis]) THEN G1_axes(params, pos + 1, lp)
         ELSE IF axis \notin axis_names
              THEN [last |-> lp, err |-> "unconfigured_axis"]
         ELSE IF params[axis].k = "bad"
              THEN [last |-> lp, err |-> "unable_to_parse"]
         ELSE G1_axes(params, pos + 1,
                      [lp EXCEPT ![pos] = G1_axis(absolute_coord, lp[pos],
                                                  base_position[pos],
                                                  R(params[axis].v))])

\* The extruder step of G1.
G1_e(params, r) ==
    IF r.err # "none" \/ ~Given(params["E"]) THEN r
    ELSE IF params["E"].k = "bad"
         THEN [last |-> r.last, err |-> "unable_to_parse"]
    ELSE [last |-> [r.last EXCEPT ![pos_length] =
                        G1_extrude(absolute_coord, absolute_extrude,
                                   r.last[pos_length],
                                   base_position[pos_length],
                                   RMul(R(params["E"].v), extrude_factor))],
          err |-> "none"]

\* The feed rate step of G1.
G1_f(params, r) ==
    IF r.err # "none" \/ ~Given(params["F"])
    THEN [last |-> r.last, speed |-> speed, err |-> r.err]
    ELSE IF params["F"].k = "bad"
         THEN [last |-> r.last, speed |-> speed, err |-> "unable_to_parse"]
    ELSE IF G1_speed_invalid(R(params["F"].v))
         THEN [last |-> r.last, speed |-> speed, err |-> "invalid_speed"]
    ELSE [last |-> r.last, speed |-> RMul(R(params["F"].v), speed_factor),
          err |-> "none"]

\* The try block of cmd_G1.
G1_parse(params) == G1_f(params, G1_e(params, G1_axes(params, 1, last_position)))

cmd_G1(params) ==
    /\ CanDispatch
    /\ LET r == G1_parse(params) IN
       /\ last_position' = r.last
       /\ speed' = r.speed
       /\ pending_error' = r.err
       /\ IF r.err = "none"
          THEN ToolheadMove(r.last, r.speed)
          ELSE UNCHANGED toolhead
    /\ last_cmd' = [name |-> "G1", params |-> params]
    /\ steps' = steps + 1
    /\ UNCHANGED <<machine, config, is_printer_ready, modes, base_position,
                   homing_position, speed_factor, extrude_factor,
                   saved_states, transform, klippy_state>>

G1Inputs == {
    Params(("X" :> Num(10)) @@ ("Y" :> Num(5)) @@ ("F" :> Num(600))),
    Params(("X" :> Num(-4)) @@ ("Z" :> Num(3))),
    Params(("E" :> Num(6))),
    Params(("Y" :> Num(7)) @@ ("E" :> Num(-2)) @@ ("F" :> Num(300))),
    Params(("X" :> Num(3)) @@ ("Y" :> Bad)),
    Params(("X" :> Num(3)) @@ ("E" :> Num(1)) @@ ("F" :> Num(0))),
    Params(("E" :> Num(1)) @@ ("F" :> Num(-60))),
    NoParams }

(***************************************************************************)
(* Mode switches                                                           *)
(***************************************************************************)
SetModes(name, coord, extrude) ==
    /\ CanDispatch
    /\ absolute_coord' = coord
    /\ absolute_extrude' = extrude
    /\ last_cmd' = [name |-> name]
    /\ steps' = steps + 1
    /\ UNCHANGED <<machine, config, is_printer_ready, base_position, last_position,
                   homing_position, factors, saved_states, transform,
                   toolhead, klippy_state, pending_error>>

cmd_M82 == SetModes("M82", absolute_coord, TRUE)
cmd_M83 == SetModes("M83", absolute_coord, FALSE)
cmd_G90 == SetModes("G90", TRUE, absolute_extrude)
cmd_G91 == SetModes("G91", FALSE, absolute_extrude)

(***************************************************************************)
(* G92, M114                                                               *)
(***************************************************************************)
G92_offset_unscaled(i, n, offset, ef) == offset

\* The offset of slot i of n: the last slot is the extruder's and is scaled.
G92_offset(i, n, offset, ef) ==
    IF i = n THEN RMul(offset, ef) ELSE offset

\* base_position as cmd_G92 leaves it.
G92_base(params) ==
    IF \A i \in 1..pos_length : ~Given(params[axis_list[i]])
    THEN last_position
    ELSE [i \in 1..pos_length |->
            LET a == axis_list[i] IN
            IF Given(params[a])
            THEN RSub(last_position[axis_map(a)],
                      G92_offset(i, pos_length, R(params[a].v),
                                 extrude_factor))
            ELSE base_position[i]]

cmd_G92(params) ==
    /\ CanDispatch
    /\ IF \E i \in 1..pos_length : params[axis_list[i]].k = "bad"
       THEN /\ pending_error' = "unable_to_parse"
            /\ UNCHANGED base_position
       ELSE /\ base_position' = G92_base(params)
            /\ UNCHANGED pending_error
    /\ last_cmd' = [name |-> "G92", params |-> params]
    /\ steps' = steps + 1
    /\ UNCHANGED <<machine, config, is_printer_ready, modes, last_position,
                   homing_position, factors, saved_states, transform,
                   toolhead, klippy_state>>

G92Inputs == {
    NoParams,
    Params(("X" :> Num(0))),
    Params(("Z" :> Num(2)) @@ ("E" :> Num(3))),
    Params(("Y" :> Bad)) }

\* _get_gcode_position()
get_gcode_position(last, base, ef) ==
    [i \in 1..pos_length |->
        IF i = pos_length THEN RDiv(RSub(last[i], base[i]), ef)
        ELSE RSub(last[i], base[i])]

\* The response of M114: for each letter of axis_map the coordinate "%.3f".
M114_response(last, base, ef) ==
    [a \in Range(axis_list) |->
        Format3(get_gcode_position(last, base, ef)[axis_map(a)])]

cmd_M114 == M114_response(last_position, base_position, extrude_factor)

(***************************************************************************)
(* M220, M221                                                              *)
(***************************************************************************)
\* gcmd.get_float('S', 100., above=0.) / 100.
Percent(tok) == IF Given(tok) THEN Rat(tok.v, 100) ELSE R(1)
PercentValid(tok) == ~Given(tok) \/ (tok.k = "num" /\ tok.v > 0)

\* _get_gcode_speed()
get_gcode_speed(spd, factor) == RDiv(spd, factor)

M220_speed_unscaled(spd, factor, value) == RMul(spd, value)

\* speed as cmd_M220 leaves it.
M220_speed(spd, factor, value) == RMul(get_gcode_speed(spd, factor), value)

cmd_M220(params) ==
    /\ CanDispatch
    /\ IF ~PercentValid(params["S"])
       THEN /\ pending_error' = "invalid_parameter"
            /\ UNCHANGED <<speed, speed_factor>>
       ELSE LET value == RDiv(Percent(params["S"]), R(60)) IN
            /\ speed' = M220_speed(speed, speed_factor, value)
            /\ speed_factor' = value
            /\ UNCHANGED pending_error
    /\ last_cmd' = [name |-> "M220", params |-> params]
    /\ steps' = steps + 1
    /\ UNCHANGED <<machine, config, is_printer_ready, modes, base_position,
                   last_position, homing_position, extrude_factor,
                   saved_states, transform, toolhead, klippy_state>>

M220Inputs == { Params(("S" :> Num(200))), Params(("S" :> Num(30))),
                Params(("S" :> Num(0))) }

M221_base_kept(last_e, base_e, ef, new_ef) == base_e

\* base_position[-1] as cmd_M221 leaves it.
M221_base(last_e, base_e, ef, new_ef) ==
    LET e_value == RDiv(RSub(last_e, base_e), ef)
    IN  RSub(last_e, RMul(e_value, new_ef))

cmd_M221(params) ==
    /\ CanDispatch
    /\ IF ~PercentValid(params["S"])
       THEN /\ pending_error' = "invalid_parameter"
            /\ UNCHANGED <<base_position, extrude_factor>>
       ELSE LET new_extrude_factor == Percent(params["S"]) IN
            /\ base_position' =
                 [base_position EXCEPT ![pos_length] =
                     M221_base(last_position[pos_length],
                               base_position[pos_length],
                               extrude_factor, new_extrude_factor)]
            /\ extrude_factor' = new_extrude_factor
            /\ UNCHANGED pending_error
    /\ last_cmd' = [name |-> "M221", params |-> params]
    /\ steps' = steps + 1
    /\ UNCHANGED <<machine, config, is_printer_ready, modes, last_position,
                   homing_position, speed, speed_factor, saved_states,
                   transform, toolhead, klippy_state>>

M221Inputs == { Params(("S" :> Num(50))), Params(("S" :> Num(150))),
                Params(("S" :> Num(-5))) }

(***************************************************************************)
(* SET_GCODE_OFFSET                                                        *)
(***************************************************************************)
\* gcmd.get_float('MOVE_SPEED', self.speed, above=0.)
MoveSpeed(tok, spd) == IF Given(tok) THEN R(tok.v) ELSE spd
MoveSpeedValid(tok) == ~Given(tok) \/ (tok.k = "num" /\ tok.v > 0)
\* gcmd.get_int('MOVE', 0), tested for truth
MoveRequested(tok) == Given(tok) /\ tok.v # 0

offset_of_adjust_absolute(params, pos) ==
    LET a == axis_list[pos] IN
    IF Given(params[a]) THEN R(params[a].v)
    ELSE IF Given(params[a \o "_ADJUST"])
         THEN R(params[a \o "_ADJUST"].v)
    ELSE homing_position[pos]

\* The new offset of slot pos: axis=v, else axis_ADJUST=d added to the
\* homing position, else the slot is skipped (its offset stays).
offset_of(params, pos) ==
    LET a == axis_list[pos] IN
    IF Given(params[a]) THEN R(params[a].v)
    ELSE IF Given(params[a \o "_ADJUST"])
         THEN RAdd(R(params[a \o "_ADJUST"].v), homing_position[pos])
    ELSE homing_position[pos]

\* move_delta of cmd_SET_GCODE_OFFSET
move_delta(params) ==
    [pos \in 1..pos_length |-> RSub(offset_of(params, pos), homing_position[pos])]

cmd_SET_GCODE_OFFSET(params) ==
    /\ CanDispatch
    /\ LET delta == move_delta(params) IN
       /\ base_position' =
            [pos \in 1..pos_length |-> RAdd(base_position[pos], delta[pos])]
       /\ homing_position' =
            [pos \in 1..pos_length |-> offset_of(params, pos)]
       /\ IF ~MoveRequested(params["MOVE"])
          THEN UNCHANGED <<last_position, toolhead, pending_error>>
          ELSE IF ~MoveSpeedValid(params["MOVE_SPEED"])
               THEN /\ pending_error' = "invalid_parameter"
                    /\ UNCHANGED <<last_position, toolhead>>
          ELSE LET newpos == [pos \in 1..pos_length |->
                                 RAdd(last_position[pos], delta[pos])] IN
               /\ last_position' = newpos
               /\ ToolheadMove(newpos, MoveSpeed(params["MOVE_SPEED"], speed))
               /\ UNCHANGED pending_error
    /\ last_cmd' = [name |-> "SET_GCODE_OFFSET", params |-> params]
    /\ steps' = steps + 1
    /\ UNCHANGED <<machine, config, is_printer_ready, modes, factors, saved_states,
                   transform, klippy_state>>

OffsetInputs == {
    Params(("X" :> Num(1)) @@ ("E" :> Num(2))),
    Params(("Y_ADJUST" :> Num(-1)) @@ ("MOVE" :> Num(1))),
    Params(("X" :> Num(4)) @@ ("MOVE" :> Num(1)) @@ ("MOVE_SPEED" :> Num(0))) }

(***************************************************************************)
(* SAVE_GCODE_STATE / RESTORE_GCODE_STATE                                  *)
(***************************************************************************)
StateNames == {"default", "a"}

\* The dictionary stored by cmd_SAVE_GCODE_STATE.
gcode_state ==
    [absolute_coord |-> absolute_coord,
     absolute_extrude |-> absolute_extrude,
     base_position |-> base_position,
     last_position |-> last_position,
     homing_position |-> homing_position,
     speed |-> speed, speed_factor |-> speed_factor,
     extrude_factor |-> extrude_factor]

save_state_evicting(states, name, state) == [n \in {name} |-> state]

\* self.saved_states[state_name] = state
save_state(states, name, state) ==
    [n \in DOMAIN states \cup {name} |->
        IF n = name THEN state ELSE states[n]]

cmd_SAVE_GCODE_STATE(name) ==
    /\ CanDispatch
    /\ saved_states' = save_state(saved_states, name, gcode_state)
    /\ last_cmd' = [name |-> "SAVE_GCODE_STATE", state_name |-> name]
    /\ steps' = steps + 1
    /\ UNCHANGED <<machine, config, is_printer_ready, modes, base_position,
                   last_position, homing_position, factors, transform,
                   toolhead, klippy_state, pending_error>>

restore_base_e_always(saved_base_e, last_e, saved_last_e, relative) ==
    RAdd(saved_base_e, RSub(last_e, saved_last_e))

\* base_position[-1] as cmd_RESTORE_GCODE_STATE leaves it.
restore_base_e(saved_base_e, last_e, saved_last_e, relative) ==
    LET e_diff == RSub(last_e, saved_last_e)
    IN  RAdd(saved_base_e, IF relative THEN e_diff ELSE R(0))

restore_move_target_all(last, saved_last) == saved_last

\* self.last_position[:-1] = state['last_position'][:-1]
restore_move_target(last, saved_last) ==
    [pos \in 1..pos_length |->
        IF pos < pos_length THEN saved_last[pos] ELSE last[pos]]

restore_lookup_error_silent(states, name) == "none"

\* state = self.saved_states.get(state_name); if state is None: raise
\* gcmd.error("Unknown g-code state: %s")
restore_lookup_error(states, name) ==
    IF name \notin DOMAIN states THEN "unknown_state" ELSE "none"

cmd_RESTORE_GCODE_STATE(name, params) ==
    /\ CanDispatch
    /\ IF name \notin DOMAIN saved_states
       THEN /\ pending_error' = restore_lookup_error(saved_states, name)
            /\ UNCHANGED <<modes, base_position, last_position,
                           homing_position, factors, toolhead>>
       ELSE LET state == saved_states[name] IN
            /\ absolute_coord' = state.absolute_coord
            /\ absolute_extrude' = state.absolute_extrude
            /\ base_position' =
                 [state.base_position EXCEPT ![pos_length] =
                     restore_base_e(state.base_position[pos_length],
                                    last_position[pos_length],
                                    state.last_position[pos_length],
                                    relative_e_restore)]
            /\ homing_position' = state.homing_position
            /\ speed' = state.speed
            /\ speed_factor' = state.speed_factor
            /\ extrude_factor' = state.extrude_factor
            /\ IF ~MoveRequested(params["MOVE"])
               THEN UNCHANGED <<last_position, toolhead, pending_error>>
               ELSE IF ~MoveSpeedValid(params["MOVE_SPEED"])
                    THEN /\ pending_error' = "invalid_parameter"
                         /\ UNCHANGED <<last_position, toolhead>>
               ELSE LET newpos == restore_move_target(last_position,
                                                      state.last_position) IN
                    /\ last_position' = newpos
                    /\ ToolheadMove(newpos,
                                    MoveSpeed(params["MOVE_SPEED"], state.speed))
                    /\ UNCHANGED pending_error
    /\ last_cmd' = [name |-> "RESTORE_GCODE_STATE", state_name |-> name,
                    params |-> params]
    /\ steps' = steps + 1
    /\ UNCHANGED <<machine, config, is_printer_ready, saved_states, transform,
                   klippy_state>>

RestoreInputs == {
    NoParams,
    Params(("MOVE" :> Num(1))),
    Params(("MOVE" :> Num(1)) @@ ("MOVE_SPEED" :> Num(5))),
    Params(("MOVE" :> Num(1)) @@ ("MOVE_SPEED" :> Num(0))) }

(***************************************************************************)
(* Toolhead position events                                                *)
(***************************************************************************)
reset_last_position_at_unguarded(ready, reader, toolhead_pos) ==
    position_read_at(reader, toolhead_pos)

\* reset_last_position run by a handler of an event the toolhead sends after
\* it changed its position to toolhead_pos.
reset_last_position_at(ready, reader, toolhead_pos) ==
    IF ready THEN position_read_at(reader, toolhead_pos) ELSE last_position

\* No command is running and nothing is waiting for the dispatcher.
HostIdle ==
    /\ ~g28.active
    /\ pending_error = "none"
    /\ steps < MaxSteps

\* Positions other modules hand to the toolhead.
ToolheadPositions == { <<R(5), R(5), R(5), R(0)>> }
ManualMoveTargets == { <<R(0), R(0), R(20), R(1)>> }

\* toolhead.set_position(newpos) called by another module, followed by the
\* toolhead:set_position event.
toolhead_set_position(newpos) ==
    /\ HostIdle
    /\ commanded_pos' = newpos
    /\ last_position' = reset_last_position_at(is_printer_ready,
                                               position_with_transform, newpos)
    /\ last_cmd' = [name |-> "set_position", stale |-> last_position]
    /\ steps' = steps + 1
    /\ UNCHANGED <<machine, config, is_printer_ready, modes, base_position,
                   homing_position, factors, saved_states, transform,
                   move_count, last_move, extruders, klippy_state,
                   pending_error>>

\* toolhead.manual_move(coord, speed) called by another module, followed by
\* the toolhead:manual_move event.
toolhead_manual_move(newpos) ==
    /\ HostIdle
    /\ commanded_pos' = newpos
    /\ move_count' = move_count + 1
    /\ last_move' = <<newpos, speed>>
    /\ extruders' = extruder_move(extruders, commanded_pos, newpos)
    /\ last_position' = reset_last_position_at(is_printer_ready,
                                               position_with_transform, newpos)
    /\ last_cmd' = [name |-> "manual_move", stale |-> last_position]
    /\ steps' = steps + 1
    /\ UNCHANGED <<machine, config, is_printer_ready, modes, base_position,
                   homing_position, factors, saved_states, transform,
                   klippy_state, pending_error>>

\* set_move_transform(transform, force), called by another module
set_move_transform(t, force) ==
    /\ HostIdle
    /\ IF move_with_transform \in Transforms /\ ~force
       THEN UNCHANGED transform
       ELSE /\ move_with_transform' = t
            /\ position_with_transform' = t
    /\ last_cmd' = [name |-> "set_move_transform", transform |-> t,
                    force |-> force,
                    config_error |-> (move_with_transform \in Transforms
                                       /\ ~force),
                    returned |-> IF move_with_transform \notin Transforms
                                 THEN "toolhead"
                                 ELSE IF force THEN move_with_transform
                                 ELSE "none"]
    /\ steps' = steps + 1
    /\ UNCHANGED <<machine, config, is_printer_ready, modes, base_position,
                   last_position, homing_position, factors, saved_states,
                   toolhead, klippy_state, pending_error>>

(***************************************************************************)
(* Rails and cartesian kinematics                                          *)
(***************************************************************************)
\* The rails of the kinematic: one per letter of axis_names, by slot.
rail_slots == {pos \in 1..min_axes : axis_list[pos] \in axis_names}

\* rail.get_range(): (position_min, position_max) of stepper_x/y/z
rail_range(axis) ==
    CASE axis = 1 -> <<R(0), R(200)>>
      [] axis = 2 -> <<R(0), R(100)>>
      [] OTHER    -> <<R(-5), R(50)>>

\* rail.get_homing_info().position_endstop
position_endstop(axis) ==
    CASE axis = 1 -> R(200)
      [] OTHER    -> R(0)

\* rail.get_homing_info().positive_dir
positive_dir(axis) == axis = 1

set_position_limits_all(lim, homing_axes) ==
    [i \in 1..3 |-> IF i \in rail_slots /\ homing_axes # {}
                    THEN rail_range(i) ELSE lim[i]]

\* self.limits as CartKinematicsABC.set_position(newpos, homing_axes) leaves it
set_position_limits(lim, homing_axes) ==
    [i \in 1..3 |-> IF i \in rail_slots /\ i \in homing_axes
                    THEN rail_range(i) ELSE lim[i]]

\* homepos[axis] of _home_axis
home_axis_homepos(axis) == position_endstop(axis)

\* forcepos[axis] of _home_axis
home_axis_forcepos(axis) ==
    IF positive_dir(axis)
    THEN RSub(position_endstop(axis),
              RMul(Rat(3, 2), RSub(position_endstop(axis), rail_range(axis)[1])))
    ELSE RAdd(position_endstop(axis),
              RMul(Rat(3, 2), RSub(rail_range(axis)[2], position_endstop(axis))))

(***************************************************************************)
(* G28                                                                     *)
(***************************************************************************)
\* The axis letters a G28 may carry.
G28Inputs == { {}, {"X"}, {"Z"}, {"X", "Y"}, {"E"}, {"X", "E"} }

\* Slots of the parameters cmd_G28 looks for: list(toolhead.axis_map)[:-1]
G28_given(letters) ==
    SelectSeq([pos \in 1..min_axes |-> pos], LAMBDA pos : axis_list[pos] \in letters)

\* A given letter that is not in toolhead.axis_names
G28_unconfigured(letters) ==
    \E pos \in 1..min_axes :
        axis_list[pos] \in letters /\ axis_list[pos] \notin axis_names

\* toolhead.axis_config: the configured slots, the extruder slot last
axis_config ==
    SelectSeq([pos \in 1..min_axes |-> pos], LAMBDA pos : pos \in rail_slots)
        \o <<pos_length>>

\* axes as cmd_G28 computes it
G28_axes(letters) ==
    IF G28_given(letters) # <<>> THEN G28_given(letters)
    ELSE IF can_home THEN axis_config
    ELSE SubSeq(axis_config, 1, Len(axis_config) - 1)

\* [a for a in axes if a in kin.axis] for the one kinematic of the toolhead
G28_kin_axes(letters) ==
    SelectSeq(G28_axes(letters), LAMBDA pos : pos \in rail_slots)

cmd_G28(letters) ==
    /\ CanDispatch
    /\ IF G28_unconfigured(letters)
       THEN /\ pending_error' = "unconfigured_axis"
            /\ UNCHANGED g28
       ELSE /\ g28' = [active |-> G28_kin_axes(letters) # <<>>,
                       letters |-> letters,
                       axes |-> G28_kin_axes(letters),
                       next |-> 1,
                       homed |-> {}]
            /\ UNCHANGED pending_error
    /\ last_cmd' = [name |-> "G28", letters |-> letters]
    /\ steps' = steps + 1
    /\ UNCHANGED <<config, is_printer_ready, modes, base_position,
                   last_position, homing_position, factors, saved_states,
                   transform, toolhead, klippy_state, can_home, limits,
                   motor_off_count, hmove, e_limits, limits_enabled>>

\* How a homing move of home_rails can end, and how far past the trigger
\* the toolhead halts when it ends well.
HomingOutcomes == {"ok", "no_trigger", "still_triggered", "shutdown"}
Overshoots == {R(0), Rat(1, 10)}

home_axes_motor_off_never(shutdown) == 0

\* Calls of stepper_enable.motor_off() in the except clause of home_axes
home_axes_motor_off(shutdown) == IF shutdown THEN 0 ELSE 1

home_axes_error_reraised(shutdown, error) == error

\* The error that leaves the except clause of home_axes
home_axes_error(shutdown, error) ==
    IF shutdown THEN "homing_failed_shutdown" ELSE error

home_rails_end_base_all(base, homing, axes) == homing

home_rails_end_base_toolhead(base, homing, axes) ==
    [pos \in 1..pos_length |->
        IF pos \in axes THEN position_endstop(pos) ELSE base[pos]]

\* base_position as _handle_home_rails_end leaves it
home_rails_end_base(base, homing, axes) ==
    [pos \in 1..pos_length |-> IF pos \in axes THEN homing[pos] ELSE base[pos]]

\* len(self.rails) of the kinematic that owns slot axis: one rail per
\* configured letter of its triplet
kin_rails(axis) ==
    Cardinality({pos \in rail_slots : (pos - 1) \div 3 = (axis - 1) \div 3})

\* homepos = [None, None, None, None]
homepos_length == 4

\* The IndexError of kin.home, _home_axis or the start of home_rails for
\* the slot axis (the code counts from 0): self.rails[axis], homepos[axis],
\* and forcepos[axis] for axis in range(toolhead.pos_length - 1)
home_index_error(axis) ==
    IF axis > kin_rails(axis) THEN "rails_index_out_of_range"
    ELSE IF axis > homepos_length THEN "homepos_index_out_of_range"
    ELSE IF pos_length - 1 > homepos_length
         THEN "forcepos_index_out_of_range"
    ELSE "none"

\* One pass of the loop of kin.home: _home_axis and Homing.home_rails for the
\* next axis of the homing state, and the except clause of home_axes when
\* the homing move raises.
home_rails(outcome, overshoot) ==
    /\ g28.active
    /\ pending_error = "none"
    /\ home_index_error(g28.axes[g28.next]) = "none"
    /\ outcome # "ok" => overshoot = R(0)
    /\ LET axis == g28.axes[g28.next]
           startpos == [commanded_pos EXCEPT ![axis] = home_axis_forcepos(axis)]
           haltpos == [commanded_pos EXCEPT
                          ![axis] = RAdd(home_axis_homepos(axis), overshoot)]
           homing_limits == set_position_limits(limits, {axis})
           shutdown == outcome = "shutdown"
       IN
       /\ IF outcome = "ok"
          THEN /\ commanded_pos' = haltpos
               /\ last_position' =
                    reset_last_position_at(is_printer_ready,
                                           position_with_transform, haltpos)
               /\ base_position' =
                    home_rails_end_base(base_position, homing_position,
                                        Range(g28.axes))
               /\ limits' = homing_limits
               /\ g28' = [g28 EXCEPT
                            !.active = g28.next < Len(g28.axes),
                            !.next = g28.next + 1,
                            !.homed = g28.homed \cup {axis_list[axis]}]
               /\ UNCHANGED <<is_printer_ready, klippy_state, pending_error,
                              motor_off_count, e_limits>>
          ELSE /\ commanded_pos' = IF shutdown THEN startpos ELSE haltpos
               /\ klippy_state' = IF shutdown THEN "shutdown" ELSE klippy_state
               /\ is_printer_ready' = (is_printer_ready /\ ~shutdown)
               /\ last_position' =
                    reset_last_position_at(is_printer_ready,
                                           position_with_transform,
                                           IF shutdown THEN startpos ELSE haltpos)
               /\ motor_off_count' =
                    motor_off_count + home_axes_motor_off(shutdown)
               /\ limits' = IF home_axes_motor_off(shutdown) > 0
                            THEN no_limits ELSE homing_limits
               /\ e_limits' = IF home_axes_motor_off(shutdown) > 0
                              THEN unhomed ELSE e_limits
               /\ pending_error' = home_axes_error(shutdown, outcome)
               /\ g28' = [g28 EXCEPT !.active = FALSE]
               /\ UNCHANGED base_position
       /\ last_cmd' = [name |-> "home_rails", axis |-> axis,
                       outcome |-> outcome, overshoot |-> overshoot,
                       axes |-> Range(g28.axes), letters |-> g28.letters]
    /\ UNCHANGED <<config, modes, homing_position, factors, saved_states,
                   transform, move_count, last_move, extruders, steps,
                   can_home, hmove, limits_enabled>>

\* Commands that set up the states homing starts from.
HomingOffsetInputs == {
    Params(("X" :> Num(1)) @@ ("E" :> Num(2))) }
HomingG92Inputs == { Params(("X" :> Num(0))), NoParams }
HomingG1Inputs == { Params(("X" :> Num(10)) @@ ("Y" :> Num(5)) @@ ("F" :> Num(600))) }

InitHoming ==
    /\ InitGCodeMove
    /\ InitMachine
    /\ can_home \in BOOLEAN
    /\ can_home => axis_names = {"X", "Y", "Z"}
    /\ relative_e_restore = FALSE

NextHoming ==
    \/ handle_ready
    \/ handle_shutdown
    \/ handle_command_error
    \/ cmd_refused
    \/ \E newpos \in ToolheadPositions : toolhead_set_position(newpos)
    \/ \E newpos \in ManualMoveTargets : toolhead_manual_move(newpos)
    \/ \E force \in BOOLEAN : set_move_transform("transform", force)
    \/ \E letters \in G28Inputs : cmd_G28(letters)
    \/ \E outcome \in HomingOutcomes, overshoot \in Overshoots :
          home_rails(outcome, overshoot)
    \/ \E params \in HomingG1Inputs : cmd_G1(params)
    \/ \E params \in HomingG92Inputs : cmd_G92(params)
    \/ \E params \in HomingOffsetInputs : cmd_SET_GCODE_OFFSET(params)

SpecHoming == InitHoming /\ [][NextHoming]_vars

Next ==
    \/ handle_ready
    \/ handle_shutdown
    \/ handle_command_error
    \/ cmd_refused
    \/ \E params \in G1Inputs : cmd_G1(params)
    \/ cmd_M82
    \/ cmd_M83
    \/ cmd_G90
    \/ cmd_G91
    \/ \E params \in G92Inputs : cmd_G92(params)
    \/ \E params \in M220Inputs : cmd_M220(params)
    \/ \E params \in M221Inputs : cmd_M221(params)
    \/ \E params \in OffsetInputs : cmd_SET_GCODE_OFFSET(params)
    \/ \E name \in StateNames : cmd_SAVE_GCODE_STATE(name)
    \/ \E name \in StateNames, params \in RestoreInputs :
          cmd_RESTORE_GCODE_STATE(name, params)

Spec == Init /\ [][Next]_vars

(***************************************************************************)
(* Properties                                                              *)
(***************************************************************************)
E == pos_length
Succeeded == pending_error' = "none"
Did(name) == last_cmd'.name = name
NoMove == UNCHANGED toolhead
OneMove(pos, spd) ==
    /\ move_count' = move_count + 1
    /\ last_move' = <<pos, spd>>
    /\ commanded_pos' = pos

\* C1: a successful G1/G0 sets every named non-extruder slot to base + v when
\* absolute_coord holds and to last + v otherwise, keeps every slot that is
\* not named, and calls the toolhead move exactly once with the updated
\* last_position and the current speed.
C1_G1UpdatesNamedAxesAndMovesOnce ==
    [][(Did("G1") /\ Succeeded) =>
        LET p == last_cmd'.params IN
        /\ \A i \in 1..min_axes :
              LET a == axis_list[i] IN
              IF Given(p[a])
              THEN last_position'[i] =
                     IF absolute_coord
                     THEN RAdd(base_position[i], R(p[a].v))
                     ELSE RAdd(last_position[i], R(p[a].v))
              ELSE last_position'[i] = last_position[i]
        /\ ~Given(p["E"]) => last_position'[E] = last_position[E]
        /\ OneMove(last_position', speed')
      ]_vars

\* G91 then G1 X10 Y5 F600 from the origin: one move to [10,5,0,0] at 10.
C1_Witness ==
    /\ last_cmd.name = "G1"
    /\ pending_error = "none"
    /\ last_cmd.params["X"] = Num(10)
    /\ last_cmd.params["Y"] = Num(5)
    /\ last_cmd.params["F"] = Num(600)
    /\ ~absolute_coord
    /\ steps = 2
    /\ last_position = <<R(10), R(5), R(0), R(0)>>
    /\ speed = R(10)
    /\ move_count = 1
    /\ last_move = <<last_position, R(10)>>

\* C2: a successful G1 with E=v sets the extruder slot to
\* base + v*extrude_factor only when absolute_coord and absolute_extrude both
\* hold, and adds v*extrude_factor to it in the three other cases.
C2_G1ExtrudeAbsoluteOnlyWhenBothFlags ==
    [][(Did("G1") /\ Succeeded /\ Given(last_cmd'.params["E"])) =>
        LET v == RMul(R(last_cmd'.params["E"].v), extrude_factor) IN
        last_position'[E] =
            IF absolute_coord /\ absolute_extrude
            THEN RAdd(base_position[E], v)
            ELSE RAdd(last_position[E], v)
      ]_vars

\* After M82 (the default) and G91, a G1 E6 moved E relatively, to a place
\* other than the absolute one.
C2_Witness ==
    /\ last_cmd.name = "G1"
    /\ pending_error = "none"
    /\ Given(last_cmd.params["E"])
    /\ ~absolute_coord
    /\ absolute_extrude
    /\ last_position[E] #
         RAdd(base_position[E], RMul(R(last_cmd.params["E"].v), extrude_factor))

\* C3: after a G92 that names axes, M114 reports the given value for each
\* named axis and its former value for every other axis; after a G92 that
\* names none, M114 reports 0 for every axis; last_position is unchanged and
\* no move is issued.
C3_G92SetsReportedPosition ==
    [][(Did("G92") /\ Succeeded) =>
        LET p      == last_cmd'.params
            named  == {a \in Range(axis_list) : Given(p[a])}
            before == M114_response(last_position, base_position,
                                    extrude_factor)
            after  == M114_response(last_position', base_position',
                                    extrude_factor')
        IN
        /\ \A a \in Range(axis_list) :
              after[a] = IF named = {} THEN 0
                         ELSE IF a \in named THEN p[a].v * 1000
                         ELSE before[a]
        /\ last_position' = last_position
        /\ NoMove
      ]_vars

\* G92 Z2 E3 acted with extrude_factor # 1 and a non-zero E position.
C3_Witness ==
    /\ last_cmd.name = "G92"
    /\ pending_error = "none"
    /\ Given(last_cmd.params["E"])
    /\ extrude_factor # R(1)
    /\ last_position[E] # R(0)
    /\ base_position[E] # R(0)
    /\ cmd_M114["E"] = 3000

\* C4: a G1 with F <= 0 fails (with the invalid-speed error when its other
\* parameters are accepted), issues no move and keeps speed; a successful G1
\* with F > 0 sets speed = F * speed_factor; a successful G1 without F keeps
\* speed and moves at it.
C4_G1FeedRate ==
    [][Did("G1") =>
        LET p == last_cmd'.params
            f == p["F"]
        IN
        /\ (f.k = "num" /\ f.v <= 0) =>
              /\ pending_error' # "none"
              /\ G1_e(p, G1_axes(p, 1, last_position)).err = "none"
                    => pending_error' = "invalid_speed"
              /\ NoMove
              /\ speed' = speed
        /\ (f.k = "num" /\ f.v > 0 /\ Succeeded) =>
              /\ speed' = RMul(R(f.v), speed_factor)
              /\ last_move'[2] = speed'
        /\ (~Given(f) /\ Succeeded) =>
              /\ speed' = speed
              /\ last_move'[2] = speed
      ]_vars

\* G1 ... F0 failed with the invalid-speed error after an earlier G1 F600;
\* speed is still 10 and the only move is the earlier one.
C4_Witness ==
    /\ last_cmd.name = "G1"
    /\ last_cmd.params["F"] = Num(0)
    /\ pending_error = "invalid_speed"
    /\ speed = R(10)
    /\ move_count = 1
    /\ last_move[2] = R(10)

\* C5: a failing G1 starts from last_position equal to the toolhead position
\* and leaves the toolhead alone; the gcode:command_error event that follows,
\* handled while the printer is ready, sets last_position to the toolhead
\* position, so no partial update of the failed command remains.
C5_CommandErrorResetsLastPosition ==
    [][/\ (Did("G1") /\ ~Succeeded) =>
             /\ last_position = commanded_pos
             /\ NoMove
       /\ (Did("command_error") /\ is_printer_ready) =>
             /\ last_position' = commanded_pos
             /\ NoMove
             /\ pending_error' = "none"
      ]_vars

\* The event overwrote a last_position that a failed G1 had partly updated.
C5_Witness ==
    /\ last_cmd.name = "command_error"
    /\ last_cmd.error \in {"unable_to_parse", "invalid_speed",
                           "unconfigured_axis"}
    /\ is_printer_ready
    /\ last_cmd.stale # last_position
    /\ last_position = commanded_pos

\* C6: a successful M220 S leaves speed/speed_factor as it was and sets
\* speed_factor = (S/100)/60; a successful G1 F sets speed/speed_factor to F.
C6_M220PreservesGcodeSpeed ==
    [][/\ (Did("M220") /\ Succeeded) =>
             /\ get_gcode_speed(speed', speed_factor') =
                    get_gcode_speed(speed, speed_factor)
             /\ speed_factor' =
                    RDiv(Rat(last_cmd'.params["S"].v, 100), R(60))
       /\ (Did("G1") /\ Succeeded /\ Given(last_cmd'.params["F"])) =>
             get_gcode_speed(speed', speed_factor') =
                 R(last_cmd'.params["F"].v)
      ]_vars

\* G1 F600, M220 S200, M220 S30: the feed rate is still 600, speed is 3.
C6_Witness ==
    /\ last_cmd.name = "M220"
    /\ pending_error = "none"
    /\ steps = 3
    /\ speed_factor = Rat(30, 6000)
    /\ speed = R(3)
    /\ get_gcode_speed(speed, speed_factor) = R(600)

\* C7: a successful M221 S sets extrude_factor = S/100, leaves last_position
\* alone and leaves the E coordinate of M114 as it was.
C7_M221PreservesReportedE ==
    [][(Did("M221") /\ Succeeded) =>
        /\ extrude_factor' = Rat(last_cmd'.params["S"].v, 100)
        /\ last_position' = last_position
        /\ M114_response(last_position', base_position', extrude_factor')["E"]
             = M114_response(last_position, base_position, extrude_factor)["E"]
        /\ get_gcode_position(last_position', base_position',
                              extrude_factor')[E]
             = get_gcode_position(last_position, base_position,
                                  extrude_factor)[E]
      ]_vars

\* M221 S50, G1 E6, M221 S150: the second M221 found extrude_factor 1/2,
\* last_position[E] 3 and base_position[E] 0, and left base_position[E] -6.
C7_Witness ==
    /\ last_cmd.name = "M221"
    /\ pending_error = "none"
    /\ steps = 3
    /\ extrude_factor = Rat(3, 2)
    /\ last_position[E] = R(3)
    /\ base_position = <<R(0), R(0), R(0), R(-6)>>
    /\ homing_position = Zeros
    /\ cmd_M114["E"] = 6000

\* The fields of a saved state that RESTORE_GCODE_STATE gives back as saved.
RestoredAsSaved(state) ==
    /\ absolute_coord' = state.absolute_coord
    /\ absolute_extrude' = state.absolute_extrude
    /\ speed' = state.speed
    /\ speed_factor' = state.speed_factor
    /\ extrude_factor' = state.extrude_factor
    /\ homing_position' = state.homing_position
    /\ \A i \in 1..min_axes : base_position'[i] = state.base_position[i]

\* C8: RESTORE_GCODE_STATE of a saved name gives the flags, speed, factors,
\* homing_position and non-E base_position of the saved entry; the saved
\* entries are changed by no command but SAVE_GCODE_STATE, which sets the
\* entry of its name to the current state and keeps every other entry.
C8_SaveRestoreRoundTrip ==
    [][/\ (Did("RESTORE_GCODE_STATE")
             /\ last_cmd'.state_name \in DOMAIN saved_states) =>
             RestoredAsSaved(saved_states[last_cmd'.state_name])
       /\ Did("SAVE_GCODE_STATE") =>
             LET n == last_cmd'.state_name IN
             /\ DOMAIN saved_states' = DOMAIN saved_states \cup {n}
             /\ saved_states'[n].absolute_coord = absolute_coord
             /\ saved_states'[n].absolute_extrude = absolute_extrude
             /\ saved_states'[n].speed = speed
             /\ saved_states'[n].speed_factor = speed_factor
             /\ saved_states'[n].extrude_factor = extrude_factor
             /\ saved_states'[n].homing_position = homing_position
             /\ saved_states'[n].base_position = base_position
             /\ saved_states'[n].last_position = last_position
             /\ \A m \in DOMAIN saved_states \ {n} :
                   saved_states'[m] = saved_states[m]
       /\ ~Did("SAVE_GCODE_STATE") => saved_states' = saved_states
      ]_vars

\* A restore brought back flags, speed and offsets that commands after the
\* save had changed.
C8_Witness ==
    /\ last_cmd.name = "RESTORE_GCODE_STATE"
    /\ last_cmd.state_name \in DOMAIN saved_states
    /\ LET state == saved_states[last_cmd.state_name] IN
       /\ state.last_position # last_position
       /\ state.speed = speed
       /\ speed = R(25)
       /\ move_count = 1
       /\ last_move[2] # speed

\* C9: RESTORE_GCODE_STATE of a saved name keeps last_position[E]; with
\* relative_e_restore it sets base_position[E] to the saved one plus
\* (last_position[E] - saved last_position[E]), so that M114 reports the E
\* coordinate it reported at save time; without, to the saved one.
C9_RestoreRelativeE ==
    [][(Did("RESTORE_GCODE_STATE")
          /\ last_cmd'.state_name \in DOMAIN saved_states) =>
        LET state == saved_states[last_cmd'.state_name] IN
        /\ last_position'[E] = last_position[E]
        /\ relative_e_restore =>
             /\ base_position'[E] =
                  RAdd(state.base_position[E],
                       RSub(last_position[E], state.last_position[E]))
             /\ M114_response(last_position', base_position',
                              extrude_factor')["E"]
                  = M114_response(state.last_position, state.base_position,
                                  state.extrude_factor)["E"]
        /\ ~relative_e_restore =>
             base_position'[E] = state.base_position[E]
      ]_vars

\* A restore with relative_e_restore after the extruder had moved since the
\* save: base_position[E] is not the saved one.
C9_Witness ==
    /\ last_cmd.name = "RESTORE_GCODE_STATE"
    /\ last_cmd.state_name \in DOMAIN saved_states
    /\ relative_e_restore
    /\ LET state == saved_states[last_cmd.state_name] IN
       /\ last_position[E] # state.last_position[E]
       /\ base_position[E] # state.base_position[E]
       /\ cmd_M114["E"] = M114_response(state.last_position,
                                        state.base_position,
                                        state.extrude_factor)["E"]

\* C10: a successful RESTORE_GCODE_STATE with MOVE=1 sets the non-E slots of
\* last_position to the saved ones, keeps the E slot and issues one move to
\* that position at MOVE_SPEED if given, else at the restored speed; with
\* MOVE=0 or no MOVE it keeps last_position and issues no move.
C10_RestoreMove ==
    [][(Did("RESTORE_GCODE_STATE") /\ Succeeded
          /\ last_cmd'.state_name \in DOMAIN saved_states) =>
        LET state == saved_states[last_cmd'.state_name]
            p     == last_cmd'.params
        IN
        IF Given(p["MOVE"]) /\ p["MOVE"].v = 1
        THEN /\ \A i \in 1..min_axes :
                   last_position'[i] = state.last_position[i]
             /\ last_position'[E] = last_position[E]
             /\ OneMove(last_position',
                        IF Given(p["MOVE_SPEED"]) THEN R(p["MOVE_SPEED"].v)
                        ELSE state.speed)
        ELSE /\ last_position' = last_position
             /\ NoMove
      ]_vars

\* SAVE, G1 Y7 E-2 F300, RESTORE MOVE=1: back to Y0 with E kept at -2, at the
\* restored speed 25 and not at the 5 of the G1.
C10_Witness ==
    /\ last_cmd.name = "RESTORE_GCODE_STATE"
    /\ pending_error = "none"
    /\ last_cmd.state_name \in DOMAIN saved_states
    /\ last_cmd.params["MOVE"] = Num(1)
    /\ ~Given(last_cmd.params["MOVE_SPEED"])
    /\ last_position = <<R(0), R(0), R(0), R(-2)>>
    /\ saved_states[last_cmd.state_name].last_position[E] = R(0)
    /\ move_count = 2
    /\ last_move = <<last_position, R(25)>>

\* C11: RESTORE_GCODE_STATE with a NAME that was never saved fails with the
\* unknown-state error, leaves the modes, the three position vectors, the
\* speed and the factors and the saved states as they were, and issues no
\* move, whatever MOVE and MOVE_SPEED say.
C11_RestoreUnknownNameChangesNothing ==
    [][(Did("RESTORE_GCODE_STATE")
          /\ last_cmd'.state_name \notin DOMAIN saved_states) =>
            /\ pending_error' = "unknown_state"
            /\ UNCHANGED <<modes, base_position, last_position,
                           homing_position, factors, saved_states>>
            /\ NoMove
      ]_vars

\* An unknown NAME with MOVE=1, while another name is saved and the state is
\* no longer the initial one.
C11_Witness ==
    /\ last_cmd.name = "RESTORE_GCODE_STATE"
    /\ last_cmd.state_name \notin DOMAIN saved_states
    /\ MoveRequested(last_cmd.params["MOVE"])
    /\ pending_error = "unknown_state"
    /\ DOMAIN saved_states # {}
    /\ base_position # Zeros

\* C12: SET_GCODE_OFFSET makes the offset of a slot v for axis=v and
\* homing_position + d for axis_ADJUST=d (axis=v wins), and keeps it
\* otherwise; base_position moves by the same delta, so base_position -
\* homing_position is unchanged on every slot.  With MOVE=1 last_position
\* moves by the delta too and exactly one move goes out, so the position
\* M114 reports is unchanged; with MOVE=0 last_position stays and no move
\* goes out.
C12_SetGcodeOffset ==
    [][Did("SET_GCODE_OFFSET") =>
         LET p == last_cmd'.params IN
         /\ \A pos \in 1..pos_length :
              LET a == axis_list[pos] IN
              /\ Given(p[a]) => homing_position'[pos] = R(p[a].v)
              /\ (~Given(p[a]) /\ Given(p[a \o "_ADJUST"])) =>
                    homing_position'[pos] =
                        RAdd(homing_position[pos], R(p[a \o "_ADJUST"].v))
              /\ (~Given(p[a]) /\ ~Given(p[a \o "_ADJUST"])) =>
                    homing_position'[pos] = homing_position[pos]
              /\ base_position'[pos] =
                    RAdd(base_position[pos],
                         RSub(homing_position'[pos], homing_position[pos]))
              /\ RSub(base_position'[pos], homing_position'[pos]) =
                    RSub(base_position[pos], homing_position[pos])
         /\ (MoveRequested(p["MOVE"]) /\ Succeeded) =>
              /\ \A pos \in 1..pos_length :
                    last_position'[pos] =
                        RAdd(last_position[pos],
                             RSub(homing_position'[pos], homing_position[pos]))
              /\ OneMove(last_position', MoveSpeed(p["MOVE_SPEED"], speed))
              /\ M114_response(last_position', base_position', extrude_factor')
                   = M114_response(last_position, base_position, extrude_factor)
         /\ ~MoveRequested(p["MOVE"]) =>
              /\ Succeeded
              /\ last_position' = last_position
              /\ NoMove
      ]_vars

\* Y_ADJUST=-1 MOVE=1 applied twice after X=1 E=2: the second adjustment
\* starts from a non-zero offset and both moves went out.
C12_Witness ==
    /\ last_cmd.name = "SET_GCODE_OFFSET"
    /\ MoveRequested(last_cmd.params["MOVE"])
    /\ pending_error = "none"
    /\ homing_position[1] = R(1)
    /\ homing_position[2] = R(-2)
    /\ base_position[2] = R(-2)
    /\ last_position[2] = R(-2)
    /\ move_count = 2

\* C20 as stated: after a klippy:shutdown event the G-code coordinate state
\* holds its initial values.
C20_StateResetOnShutdown ==
    last_cmd.name = "shutdown" =>
        /\ absolute_coord /\ absolute_extrude
        /\ base_position = Zeros
        /\ last_position = Zeros
        /\ homing_position = Zeros
        /\ speed = R(25)
        /\ speed_factor = Rat(1, 60)
        /\ extrude_factor = R(1)

\* C20: a klippy:shutdown event clears is_printer_ready and nothing else: the
\* modes, the three position vectors, the speed, the factors and the saved
\* states keep the values they had before the shutdown.
C20_ShutdownKeepsState ==
    [][Did("shutdown") =>
         /\ ~is_printer_ready'
         /\ UNCHANGED <<modes, base_position, last_position, homing_position,
                        factors, saved_states>>
      ]_vars

\* A shutdown that finds relative mode, a moved toolhead and a set origin.
C20_Witness ==
    /\ last_cmd.name = "shutdown"
    /\ ~is_printer_ready
    /\ ~absolute_coord
    /\ last_position # Zeros
    /\ base_position # Zeros

(***************************************************************************)
(* Properties of homing and of the toolhead events (SpecHoming)            *)
(***************************************************************************)
RLeq(a, b) == a[1] * b[2] <= b[1] * a[2]
HomingErrors == {"no_trigger", "still_triggered"}
Homed(outcome) == Did("home_rails") /\ last_cmd'.outcome = outcome

\* C13: when a homing move of G28 fails with a command error while the
\* printer is not shut down, stepper_enable.motor_off() is called exactly
\* once and the error that leaves G28 is the one the homing move raised.
C13_HomingErrorCutsMotorsOnce ==
    [][(Did("home_rails") /\ last_cmd'.outcome \in HomingErrors) =>
         /\ motor_off_count' = motor_off_count + 1
         /\ pending_error' = last_cmd'.outcome
         /\ klippy_state' = "ready"
         /\ ~g28'.active
      ]_vars

\* G28 X Y: X homed, then the homing move of Y found its endstop still
\* triggered after the retract.
C13_Witness ==
    /\ last_cmd.name = "home_rails"
    /\ last_cmd.outcome = "still_triggered"
    /\ last_cmd.axis = 2
    /\ g28.homed = {"X"}
    /\ pending_error = "still_triggered"
    /\ motor_off_count = 1
    /\ klippy_state = "ready"

\* C14 as stated: on a command error during G28 while the printer is shut
\* down, motor_off is called and the shutdown error is raised.
C14_ShutdownPathCutsMotors ==
    [][Homed("shutdown") =>
         /\ motor_off_count' = motor_off_count + 1
         /\ pending_error' = "homing_failed_shutdown"
      ]_vars

\* C14: on a command error during G28 while the printer is shut down, G28
\* raises 'Homing failed due to printer shutdown' in place of the error of
\* the homing move and does not call motor_off: the limits set for the axis
\* being homed stay.
C14_ShutdownPathRaisesWithoutMotorOff ==
    [][Homed("shutdown") =>
         /\ pending_error' = "homing_failed_shutdown"
         /\ motor_off_count' = motor_off_count
         /\ limits'[last_cmd'.axis] = rail_range(last_cmd'.axis)
         /\ klippy_state' = "shutdown"
         /\ ~g28'.active
      ]_vars

\* G28 X Y: X homed, then the printer shut down during the homing move of Y.
C14_Witness ==
    /\ last_cmd.name = "home_rails"
    /\ last_cmd.outcome = "shutdown"
    /\ last_cmd.axis = 2
    /\ g28.homed = {"X"}
    /\ pending_error = "homing_failed_shutdown"
    /\ motor_off_count = 0
    /\ klippy_state = "shutdown"
    /\ limits[1] = rail_range(1)

\* limits[axis] is the declared range of the rail and every other entry of
\* limits is as before.
HomedLimits(axis) ==
    /\ limits'[axis] = rail_range(axis)
    /\ RLeq(limits'[axis][1], limits'[axis][2])
    /\ \A other \in 1..3 : other # axis => limits'[other] = limits[other]

\* C15 as stated: after any home_rails on axis a, limits[a] is the range of
\* the rail and the limits of the other axes are unchanged.
C15_AnyHomingSetsLimits ==
    [][Did("home_rails") => HomedLimits(last_cmd'.axis)]_vars

\* C15: after a home_rails on axis a that ends well, or that is cut short by
\* a printer shutdown, limits[a] is the declared range of the rail of a,
\* with low <= high, and the limits of the other axes are unchanged; after
\* one that fails with a command error while the printer is not shut down,
\* motor_off has reset the limits of every axis to the unhomed (1, -1).
C15_HomingSetsLimitsUnlessMotorOff ==
    [][/\ (Homed("ok") \/ Homed("shutdown")) => HomedLimits(last_cmd'.axis)
       /\ (Did("home_rails") /\ last_cmd'.outcome \in HomingErrors) =>
             limits' = no_limits
      ]_vars

\* G28 X Y on a machine with three rails: Y has just been homed, X was homed
\* by the pass before and Z never.
C15_Witness ==
    /\ last_cmd.name = "home_rails"
    /\ last_cmd.outcome = "ok"
    /\ last_cmd.axis = 2
    /\ axis_names = {"X", "Y", "Z"}
    /\ limits = <<rail_range(1), rail_range(2), unhomed>>

\* The axes C16 says a G28 with these letters homes.
G28_claimed(letters) ==
    IF letters = {}
    THEN axis_names \cup (IF can_home THEN {"E"} ELSE {})
    ELSE letters

\* C16 as stated: a G28 that ends well has homed exactly the axes it lists,
\* the extruder among them when E is listed; with no letter it has homed
\* every configured axis, and the extruder when it can be homed.
C16_G28HomesListedAxes ==
    (last_cmd.name \in {"G28", "home_rails"}
        /\ ~g28.active /\ pending_error = "none")
      => g28.homed = G28_claimed(g28.letters)

\* C17: when homing:home_rails_end is handled, last_position is re-read from
\* the transform (the toolhead when none is installed), base_position takes
\* the value of homing_position on every axis of the homing state, and
\* base_position of every other axis and all of homing_position are kept.
C17_HomeRailsEndResetsBase ==
    [][Homed("ok") =>
         /\ last_position' = position_read_at(position_with_transform,
                                              commanded_pos')
         /\ \A pos \in 1..pos_length :
              base_position'[pos] =
                  IF pos \in last_cmd'.axes THEN homing_position[pos]
                  ELSE base_position[pos]
         /\ homing_position' = homing_position
      ]_vars

\* G28 X after G1 X10 Y5 and a G92 without parameters: the origin of X is
\* back at the offset, the origin of Y is where G92 put it.
C17_Witness ==
    /\ last_cmd.name = "home_rails"
    /\ last_cmd.outcome = "ok"
    /\ last_cmd.axes = {1}
    /\ base_position[1] = homing_position[1]
    /\ base_position[2] = R(5)
    /\ homing_position[2] = R(0)
    /\ last_position = commanded_pos
    /\ last_position[1] = RAdd(R(200), last_cmd.overshoot)

\* C18 as stated: after G28 X in the default state on a rail whose
\* position_endstop is 200, base_position[X] = homing_position[X] = 200.
C18_HomingPositionIsEndstop ==
    (last_cmd.name = "home_rails" /\ last_cmd.outcome = "ok"
        /\ last_cmd.letters = {"X"} /\ steps = 1)
      => /\ base_position[1] = R(200)
         /\ homing_position[1] = R(200)

\* C18: homing_position is the G-code offset, which homing never assigns:
\* in this specification only SET_GCODE_OFFSET changes it.  After G28 X in
\* the default state on a rail whose position_endstop is 200,
\* base_position[X] = homing_position[X] = 0, and it is the toolhead that
\* holds the machine coordinate: X is 200 plus the overshoot of the halt.
C18_HomingKeepsOffset ==
    [][/\ homing_position' # homing_position => Did("SET_GCODE_OFFSET")
       /\ (Homed("ok") /\ last_cmd'.letters = {"X"} /\ steps' = 1) =>
             /\ base_position'[1] = R(0)
             /\ homing_position'[1] = R(0)
             /\ commanded_pos'[1] = RAdd(R(200), last_cmd'.overshoot)
             /\ last_position'[1] = commanded_pos'[1]
      ]_vars

\* G28 X as the first command, no transform installed, halt on the trigger.
C18_Witness ==
    /\ last_cmd.name = "home_rails"
    /\ last_cmd.outcome = "ok"
    /\ last_cmd.letters = {"X"}
    /\ steps = 1
    /\ position_with_transform = "toolhead"
    /\ last_position[1] = R(200)
    /\ base_position[1] = R(0)
    /\ homing_position[1] = R(0)

PositionEvents == {"set_position", "manual_move", "command_error"}

\* C19: after a toolhead:set_position, toolhead:manual_move or
\* gcode:command_error event handled while the printer is ready,
\* last_position is what the installed transform's get_position returns
\* (the toolhead's when none is installed); handled before the ready event
\* or after a shutdown event, the same events leave last_position unchanged.
C19_PositionEventsResetWhenReady ==
    [][last_cmd'.name \in PositionEvents =>
         IF is_printer_ready
         THEN last_position' =
                  CASE position_with_transform = "transform" ->
                           transform_get_position(commanded_pos')
                    [] OTHER -> commanded_pos'
         ELSE last_position' = last_position
      ]_vars

\* A transform installed before ready, the toolhead position set while
\* ready, then a manual move after the shutdown: last_position still holds
\* what the transform returned for the set position.
C19_Witness ==
    /\ last_cmd.name = "manual_move"
    /\ klippy_state = "shutdown"
    /\ position_with_transform = "transform"
    /\ commanded_pos = <<R(0), R(0), R(20), R(1)>>
    /\ last_position = <<R(5), R(5), R(4), R(0)>>

(***************************************************************************)
(* Move transforms (SpecTransform)                                         *)
(***************************************************************************)
TransformG1Inputs == {
    Params(("X" :> Num(10)) @@ ("Z" :> Num(3)) @@ ("F" :> Num(600))) }
TransformOffsetInputs == {
    Params(("Z_ADJUST" :> Num(1)) @@ ("MOVE" :> Num(1))) }
TransformRestoreInputs == { Params(("MOVE" :> Num(1))) }

InitTransform ==
    /\ InitGCodeMove
    /\ InitMachine
    /\ can_home = FALSE
    /\ relative_e_restore = FALSE
    /\ axis_names = {"X", "Y", "Z"}

NextTransform ==
    \/ handle_ready
    \/ handle_command_error
    \/ \E t \in Transforms, force \in BOOLEAN : set_move_transform(t, force)
    \/ \E newpos \in ToolheadPositions : toolhead_set_position(newpos)
    \/ \E params \in TransformG1Inputs : cmd_G1(params)
    \/ \E params \in TransformOffsetInputs : cmd_SET_GCODE_OFFSET(params)
    \/ cmd_SAVE_GCODE_STATE("a")
    \/ \E name \in StateNames, params \in TransformRestoreInputs :
          cmd_RESTORE_GCODE_STATE(name, params)

SpecTransform == InitTransform /\ [][NextTransform]_vars

activate_extrude_factor_kept(factor) == factor

\* self.extrude_factor as _handle_activate_extruder leaves it
activate_extrude_factor(factor) == R(1)

\* ACTIVATE_EXTRUDER EXTRUDER=name, dispatched to the PrinterExtruder of that
\* name, and the extruder:activate_extruder event it sends.
cmd_ACTIVATE_EXTRUDER(name) ==
    /\ CanDispatch
    /\ IF extruders.active = name
       THEN UNCHANGED <<commanded_pos, extruders, last_position,
                        extrude_factor>>
       ELSE LET newpos == [commanded_pos EXCEPT
                              ![pos_length] = extruders.last_position[name]]
            IN
            /\ commanded_pos' = newpos
            /\ extruders' = [extruders EXCEPT !.active = name]
            /\ last_position' =
                 reset_last_position_at(is_printer_ready,
                                        position_with_transform, newpos)
            /\ extrude_factor' = activate_extrude_factor(extrude_factor)
    /\ last_cmd' = [name |-> "ACTIVATE_EXTRUDER", extruder |-> name,
                    event |-> extruders.active # name]
    /\ steps' = steps + 1
    /\ UNCHANGED <<machine, config,
                   is_printer_ready, modes, base_position, homing_position,
                   speed, speed_factor, saved_states, transform, move_count,
                   last_move, klippy_state, pending_error>>

ExtruderG1Inputs == {
    Params(("E" :> Num(6))),
    Params(("X" :> Num(3)) @@ ("E" :> Num(-2))),
    Params(("X" :> Num(10))) }
ExtruderM221Inputs == { Params(("S" :> Num(50))) }

InitExtruder ==
    /\ InitGCodeMove
    /\ InitMachine
    /\ can_home = FALSE
    /\ relative_e_restore = FALSE
    /\ axis_names = {"X", "Y", "Z"}

NextExtruder ==
    \/ handle_ready
    \/ cmd_M83
    \/ \E name \in ExtruderNames : cmd_ACTIVATE_EXTRUDER(name)
    \/ \E params \in ExtruderG1Inputs : cmd_G1(params)
    \/ \E params \in ExtruderM221Inputs : cmd_M221(params)

SpecExtruder == InitExtruder /\ [][NextExtruder]_vars

\* C22: ACTIVATE_EXTRUDER for an extruder that is not the active one makes
\* it the active one, sets the E slot of the toolhead position to that
\* extruder's last_position and sends extruder:activate_extruder, after
\* which last_position[E] of the G-code state is that value and
\* extrude_factor is 1; for the active extruder it changes nothing and sends
\* no event.  An extruder's last_position is the E end position of the last
\* move it executed.
C22_ActivateExtruder ==
    [][/\ Did("ACTIVATE_EXTRUDER") =>
            LET name == last_cmd'.extruder IN
            IF extruders.active # name
            THEN /\ last_cmd'.event
                 /\ extruders'.active = name
                 /\ extruders'.last_position = extruders.last_position
                 /\ commanded_pos' =
                      [commanded_pos EXCEPT
                          ![E] = extruders.last_position[name]]
                 /\ last_position'[E] = extruders.last_position[name]
                 /\ \A pos \in 1..min_axes :
                      last_position'[pos] = commanded_pos[pos]
                 /\ extrude_factor' = R(1)
                 /\ UNCHANGED <<modes, base_position, homing_position, speed,
                                speed_factor, move_count>>
            ELSE /\ ~last_cmd'.event
                 /\ UNCHANGED <<toolhead, modes, base_position, last_position,
                                homing_position, factors>>
       /\ Did("G1") =>
            /\ \A n \in ExtruderNames :
                 (n # extruders.active \/ commanded_pos'[E] = commanded_pos[E])
                    => extruders'.last_position[n] = extruders.last_position[n]
            /\ commanded_pos'[E] # commanded_pos[E] =>
                 extruders'.last_position[extruders.active] = commanded_pos'[E]
      ]_vars

\* The first extruder moved to E = 3 under M221 S50, then the second, which
\* never moved, was activated: the toolhead and the G-code state are back at
\* E = 0 and the factor at 1.
C22_Witness ==
    /\ last_cmd.name = "ACTIVATE_EXTRUDER"
    /\ last_cmd.event
    /\ extruders.active = "extruder1"
    /\ extruders.last_position["extruder"] = R(3)
    /\ commanded_pos[E] = R(0)
    /\ last_position[E] = R(0)
    /\ extrude_factor = R(1)

(***************************************************************************)
(* Axis letters outside the configured set (SpecAxes)                      *)
(***************************************************************************)
AxesG1Inputs == {
    Params(("X" :> Num(5))),
    Params(("Z" :> Num(5))),
    Params(("A" :> Num(5))),
    Params(("X" :> Num(5)) @@ ("A" :> Num(5))) }
AxesG28Inputs == { {"X"}, {"Z"}, {"A"}, {"X", "A"} }
AxesOutcomes == {"ok", "no_trigger"}

InitAxes ==
    /\ InitGCodeMove
    /\ InitMachine
    /\ can_home = FALSE
    /\ relative_e_restore = FALSE

NextAxes ==
    \/ handle_ready
    \/ handle_command_error
    \/ \E params \in AxesG1Inputs : cmd_G1(params)
    \/ \E letters \in AxesG28Inputs : cmd_G28(letters)
    \/ \E outcome \in AxesOutcomes : home_rails(outcome, R(0))

SpecAxes == InitAxes /\ [][NextAxes]_vars

\* The axis letters a command names
G1_named(params) == {a \in Range(axis_letters) \cap ParamLetters :
                        Given(params[a])}
G28_named(letters) == letters \cap Range(axis_letters)

\* C23: a G1 or a G28 that names an axis letter which is not in the
\* configured axis set ends with the command error 'you must configure the
\* <axis> axis'; the G1 issues no move, the G28 homes no axis and forces no
\* position.
C23_UnconfiguredAxisIsError ==
    [][/\ (Did("G1") /\ ~(G1_named(last_cmd'.params) \subseteq axis_names))
            => /\ pending_error' = "unconfigured_axis"
               /\ UNCHANGED toolhead
       /\ (Did("G28") /\ ~(G28_named(last_cmd'.letters) \subseteq axis_names))
            => /\ pending_error' = "unconfigured_axis"
               /\ ~g28'.active
               /\ UNCHANGED <<toolhead, limits>>
      ]_vars

\* What the code does hold to: the letters of the triplets in use.
UnconfiguredLetterOfUsedTriplet ==
    [][/\ (Did("G1") /\ \E pos \in 1..min_axes :
                   /\ Given(last_cmd'.params[axis_list[pos]])
                   /\ axis_list[pos] \notin axis_names)
            => /\ pending_error' = "unconfigured_axis"
               /\ UNCHANGED toolhead
       /\ (Did("G28") /\ \E pos \in 1..min_axes :
                   /\ axis_list[pos] \in last_cmd'.letters
                   /\ axis_list[pos] \notin axis_names)
            => /\ pending_error' = "unconfigured_axis"
               /\ ~g28'.active
               /\ UNCHANGED <<toolhead, limits>>
      ]_vars

(***************************************************************************)
(* HomingMove.check_no_movement and probing moves (SpecProbe)              *)
(***************************************************************************)
\* The characters of the stepper names and of the probe_axes elements.
chars ==
    [n \in {"stepper_x", "stepper_y", "stepper_z", "extruder", "extruder1",
            "x", "z", "Z", "e", "EXTRUDER1"} |->
        CASE n = "stepper_x" -> <<"s", "t", "e", "p", "p", "e", "r", "_", "x">>
          [] n = "stepper_y" -> <<"s", "t", "e", "p", "p", "e", "r", "_", "y">>
          [] n = "stepper_z" -> <<"s", "t", "e", "p", "p", "e", "r", "_", "z">>
          [] n = "extruder"  -> <<"e", "x", "t", "r", "u", "d", "e", "r">>
          [] n = "extruder1" -> <<"e", "x", "t", "r", "u", "d", "e", "r", "1">>
          [] n = "EXTRUDER1" -> <<"E", "X", "T", "R", "U", "D", "E", "R", "1">>
          [] OTHER           -> <<n>>]

\* str.lower()
lower_char(c) ==
    CASE c = "E" -> "e" [] c = "X" -> "x" [] c = "T" -> "t" [] c = "R" -> "r"
      [] c = "U" -> "u" [] c = "D" -> "d" [] c = "Z" -> "z" [] OTHER -> c
lower(str) == [i \in DOMAIN str |-> lower_char(str[i])]

\* str.startswith(prefix)
startswith(str, prefix) ==
    Len(prefix) <= Len(str) /\ SubSeq(str, 1, Len(prefix)) = prefix

\* sub in str
str_in(sub, str) ==
    \E i \in 0..(Len(str) - Len(sub)) : SubSeq(str, i + 1, i + Len(sub)) = sub

None == "None"

StepperPosition(stepper_name, endstop_name, start_pos, trig_pos) ==
    [stepper_name |-> stepper_name, endstop_name |-> endstop_name,
     start_pos |-> start_pos, trig_pos |-> trig_pos]

extruder_matches_by_containment(sp_name, axes) ==
    \E i \in DOMAIN axes : str_in(lower(chars[axes[i]]), lower(chars[sp_name]))

\* any(axis.lower() == sp_name.lower() for axis in axes)
extruder_matches(sp_name, axes) ==
    \E i \in DOMAIN axes : lower(chars[axes[i]]) = lower(chars[sp_name])

\* any(axis.lower() in sp_name.lower() for axis in axes if axis in "xyz")
kinematic_matches(sp_name, axes) ==
    \E i \in DOMAIN axes :
        /\ str_in(chars[axes[i]], <<"x", "y", "z">>)
        /\ str_in(lower(chars[axes[i]]), lower(chars[sp_name]))

check_no_movement_all_any(sps) ==
    IF \E i \in DOMAIN sps : sps[i].start_pos = sps[i].trig_pos
    THEN sps[1].endstop_name ELSE None

\* The branch of check_no_movement without axes
check_no_movement_all(sps) ==
    LET moved_motors == SelectSeq(sps, LAMBDA sp : sp.start_pos # sp.trig_pos)
    IN IF moved_motors = <<>> THEN sps[1].endstop_name ELSE None

\* The loop of check_no_movement over the stepper positions from index i on
RECURSIVE check_no_movement_axes(_, _, _)
check_no_movement_axes(sps, axes, i) ==
    IF i > Len(sps) THEN None
    ELSE LET sp == sps[i] IN
         IF sp.start_pos = sp.trig_pos
            /\ IF startswith(lower(chars[sp.stepper_name]), chars["extruder"])
               THEN extruder_matches(sp.stepper_name, axes)
               ELSE kinematic_matches(sp.stepper_name, axes)
         THEN sp.endstop_name
         ELSE check_no_movement_axes(sps, axes, i + 1)

\* HomingMove.check_no_movement(axes); axes is [k |-> "none"] for None
check_no_movement(sps, debug, axes) ==
    IF debug THEN None
    ELSE IF axes.k = "none" THEN check_no_movement_all(sps)
    ELSE check_no_movement_axes(sps, axes.v, 1)

NoAxes == [k |-> "none", v |-> <<>>]
AxesList(l) == [k |-> "list", v |-> l]

\* The probe_axes a caller may pass
ProbeAxes == { NoAxes, AxesList(<<>>), AxesList(<<"z">>),
               AxesList(<<"x", "z">>), AxesList(<<"Z">>), AxesList(<<"e">>),
               AxesList(<<"extruder1">>), AxesList(<<"EXTRUDER1">>) }

\* The steppers of an endstop or probe
ProbeSteppers == { <<"stepper_z">>, <<"stepper_x", "stepper_z">>,
                   <<"stepper_z", "extruder1">>, <<"extruder", "extruder1">> }
StartPos == 10
TrigSteps == {0, 5}

\* The stepper positions a homing move on endstop name can leave behind
StepperPositions(name) ==
    UNION { { [i \in DOMAIN steppers |->
                  StepperPosition(steppers[i], name, StartPos,
                                  StartPos + trig[i])] :
              trig \in [DOMAIN steppers -> TrigSteps] } :
            steppers \in ProbeSteppers }

\* stepper.get_step_dist()
step_dist == Rat(1, 10)

\* trig_steps.get(sname, 0)
trig_steps(sps, sname) ==
    IF \E i \in DOMAIN sps : sps[i].stepper_name = sname
    THEN LET i == CHOOSE i \in DOMAIN sps : sps[i].stepper_name = sname
         IN sps[i].trig_pos - sps[i].start_pos
    ELSE 0

\* The stepper behind a slot of the toolhead position
slot_stepper(pos) ==
    CASE pos = 1 -> "stepper_x" [] pos = 2 -> "stepper_y"
      [] pos = 3 -> "stepper_z" [] OTHER -> extruders.active

\* halt_steps.get(sname, 0), every stepper that moved halting over steps
\* past its trigger
halt_steps(sps, sname, over) ==
    IF trig_steps(sps, sname) = 0 THEN 0 ELSE trig_steps(sps, sname) + over

\* calc_toolhead_pos(kin_spos, offsets) of a cartesian machine, for the
\* offsets of the stepper positions sps halting over steps past the trigger
calc_toolhead_pos(sps, over) ==
    [pos \in 1..pos_length |->
        RAdd(commanded_pos[pos],
             RMul(R(halt_steps(sps, slot_stepper(pos), over)), step_dist))]

OverSteps == {0, 2}

ProbeErrors == {"none", "no_trigger", "comms_timeout"}

probing_move_error_reraised(shutdown, error) == error

\* The error that leaves the except clause of probing_move
probing_move_error(shutdown, error) ==
    IF shutdown THEN "probing_failed_shutdown" ELSE error

\* PrinterHoming.probing_move(mcu_probe, pos, speed, probe_axes=axes): the
\* homing move leaves the stepper positions sps and raises error, on a
\* printer that is or is not shut down by then.  The model keeps the one
\* HomingMove that probing_move constructs.
probing_move(sps, over, error, shutdown, axes) ==
    /\ HostIdle
    /\ stepper_positions = <<>>
    /\ shutdown => error # "none"
    /\ LET trigpos == calc_toolhead_pos(sps, 0)
           haltpos == calc_toolhead_pos(sps, over)
           name == check_no_movement(sps, debuginput, axes)
       IN
       /\ stepper_positions' = sps
       /\ commanded_pos' = haltpos
       /\ klippy_state' = IF shutdown THEN "shutdown" ELSE klippy_state
       /\ is_printer_ready' = (is_printer_ready /\ ~shutdown)
       /\ last_position' =
            reset_last_position_at(is_printer_ready, position_with_transform,
                                   haltpos)
       /\ pending_error' =
            IF error # "none" THEN probing_move_error(shutdown, error)
            ELSE IF name # None THEN "probe_triggered_prior_to_movement"
            ELSE "none"
       /\ last_cmd' = [name |-> "probing_move", axes |-> axes,
                       error |-> error, shutdown |-> shutdown,
                       trigpos |-> trigpos,
                       returned |-> error = "none" /\ name = None]
    /\ steps' = steps + 1
    /\ UNCHANGED <<config, modes, base_position, homing_position, factors,
                   saved_states, transform, move_count, last_move, extruders,
                   can_home, limits, motor_off_count, g28, debuginput,
                   e_limits, limits_enabled, hm, hr>>

\* A call of check_no_movement(axes) on the homing move as it stands
call_check_no_movement(axes) ==
    /\ stepper_positions # <<>>
    /\ last_cmd' = [name |-> "check_no_movement", axes |-> axes,
                    result |-> check_no_movement(stepper_positions,
                                                 debuginput, axes)]
    /\ UNCHANGED <<machine, config, is_printer_ready, modes, base_position,
                   last_position, homing_position, factors, saved_states,
                   transform, toolhead, klippy_state, pending_error, steps>>

InitProbe ==
    /\ InitGCodeMove
    /\ extruders = extruders_init
    /\ limits = no_limits
    /\ motor_off_count = 0
    /\ g28 = g28_idle
    /\ e_limits = unhomed
    /\ limits_enabled = TRUE
    /\ can_home = FALSE
    /\ relative_e_restore = FALSE
    /\ axis_names = {"X", "Y", "Z"}
    /\ debuginput \in BOOLEAN
    /\ stepper_positions \in StepperPositions("z") \cup {<<>>}
    /\ hm = hm_idle
    /\ hr = hr_idle

NextProbe ==
    \/ handle_ready
    \/ handle_command_error
    \/ \E axes \in ProbeAxes : call_check_no_movement(axes)
    \/ \E sps \in StepperPositions("probe"), over \in OverSteps,
          error \in ProbeErrors, shutdown \in BOOLEAN, axes \in ProbeAxes :
          probing_move(sps, over, error, shutdown, axes)

SpecProbe == InitProbe /\ [][NextProbe]_vars

Unmoved(sp) == sp.start_pos = sp.trig_pos

\* A stepper name matches an element of axes: an extruder stepper by its
\* whole name, a kinematic stepper by holding a listed letter x, y or z.
NameMatches(sp_name, axes) ==
    IF sp_name \in ExtruderNames
    THEN \E i \in DOMAIN axes : lower(chars[axes[i]]) = chars[sp_name]
    ELSE \E i \in DOMAIN axes :
            /\ axes[i] \in {"x", "y", "z"}
            /\ \E k \in DOMAIN chars[sp_name] : chars[sp_name][k] = axes[i]

\* C24: without an axes argument and without replayed debug input,
\* check_no_movement returns an endstop name if and only if every stepper
\* of the homing move has start_pos = trig_pos; when one stepper moved it
\* returns None.
C24_NoAxesAllSteppersStill ==
    [][(Did("check_no_movement") /\ last_cmd'.axes.k = "none" /\ ~debuginput)
         => /\ last_cmd'.result # None
                <=> \A i \in DOMAIN stepper_positions :
                       Unmoved(stepper_positions[i])
            /\ (\E i \in DOMAIN stepper_positions :
                   ~Unmoved(stepper_positions[i]))
                 => last_cmd'.result = None
            /\ last_cmd'.result # None
                 => last_cmd'.result = stepper_positions[1].endstop_name
      ]_vars

\* Two steppers, neither moved: the name of the first endstop comes back.
C24_Witness ==
    /\ last_cmd.name = "check_no_movement"
    /\ last_cmd.axes = NoAxes
    /\ ~debuginput
    /\ Len(stepper_positions) = 2
    /\ \A i \in DOMAIN stepper_positions : Unmoved(stepper_positions[i])
    /\ last_cmd.result = "z"

RLess(a, b) == ~RLeq(b, a)
RAbs(a) == <<Abs(a[1]), a[2]>>

\* The square root of a rational that is a square
isqrt(n) == CHOOSE r \in 0..n : r * r = n
RSqrt(a) == Rat(isqrt(a[1]), isqrt(a[2]))

\* toolhead.Move(start_pos, end_pos): the fields check_move reads
Move(start_pos, end_pos) ==
    LET axes_d == [i \in DOMAIN end_pos |-> RSub(end_pos[i], start_pos[i])]
        sq == RAdd(RMul(axes_d[1], axes_d[1]),
                   RAdd(RMul(axes_d[2], axes_d[2]),
                        RMul(axes_d[3], axes_d[3])))
        move_d == IF sq = R(0) THEN RAbs(axes_d[Len(end_pos)]) ELSE RSqrt(sq)
    IN [end_pos |-> end_pos,
        axes_d |-> axes_d,
        move_d |-> move_d,
        axes_r |-> [i \in DOMAIN end_pos |->
                       IF move_d = R(0) THEN R(0)
                       ELSE RDiv(axes_d[i], move_d)]]

\* low > high: the axis was not homed
limits_unhomed(lim) == RLess(lim[2], lim[1])

\* end < low or end > high
out_of_limits(lim, end) == RLess(end, lim[1]) \/ RLess(lim[2], end)

\* CartKinematicsABC._check_endstops, from axis i on
RECURSIVE check_endstops(_, _, _)
check_endstops(lim, move, i) ==
    IF i > 3 THEN "ok"
    ELSE IF move.axes_d[i] # R(0) /\ out_of_limits(lim[i], move.end_pos[i])
         THEN IF limits_unhomed(lim[i]) THEN "must_home_axis_first"
              ELSE "move_error"
    ELSE check_endstops(lim, move, i + 1)

check_move_xy_only(lim, move) ==
    IF out_of_limits(lim[1], move.end_pos[1])
       \/ out_of_limits(lim[2], move.end_pos[2])
    THEN check_endstops(lim, move, 1) ELSE "ok"

\* CartKinematicsABC.check_move: "ok", or the move error it raises
check_move(lim, move) ==
    LET xy == IF out_of_limits(lim[1], move.end_pos[1])
                 \/ out_of_limits(lim[2], move.end_pos[2])
              THEN check_endstops(lim, move, 1) ELSE "ok"
    IN IF xy # "ok" THEN xy
       ELSE IF move.axes_d[3] = R(0) THEN "ok"
       ELSE check_endstops(lim, move, 1)

\* rail.get_range() of the extruder stepper
e_range == <<R(0), R(100)>>

\* [extruder] nozzle_diameter, max_extrude_cross_section / filament_area,
\* max_extrude_only_distance
nozzle_diameter == Rat(2, 5)
max_extrude_ratio == Rat(133, 500)
max_e_dist == R(50)

\* ExtruderStepper._check_endstops
extruder_check_endstops(e_lim, enabled, move) ==
    LET e == Len(move.end_pos) IN
    IF move.axes_d[e] # R(0) /\ out_of_limits(e_lim, move.end_pos[e])
    THEN IF limits_unhomed(e_lim) THEN "must_home_extruder_first"
         ELSE IF enabled THEN "move_error"
         ELSE "name_error"
    ELSE "ok"

\* ExtruderStepper.check_move_limits
check_move_limits(e_lim, homeable, enabled, move) ==
    IF homeable /\ enabled
       /\ out_of_limits(e_lim, move.end_pos[Len(move.end_pos)])
    THEN extruder_check_endstops(e_lim, enabled, move)
    ELSE "ok"

\* PrinterExtruder.check_move: "ok", or the error it raises
extruder_check_move(e_lim, homeable, enabled, can_extrude, symmetric, move) ==
    LET e == Len(move.end_pos)
        axis_r == move.axes_r[e]
    IN
    IF ~can_extrude THEN "extrude_below_minimum_temp"
    ELSE IF (move.axes_d[1] = R(0) /\ move.axes_d[2] = R(0))
            \/ RLess(axis_r, R(0)) \/ symmetric
         THEN IF RLess(max_e_dist, RAbs(move.axes_d[e]))
              THEN "extrude_only_move_too_long"
              ELSE check_move_limits(e_lim, homeable, enabled, move)
    ELSE IF RLess(max_extrude_ratio, axis_r)
         THEN IF RLeq(move.axes_d[e], RMul(nozzle_diameter, max_extrude_ratio))
              THEN "ok"
              ELSE "move_exceeds_maximum_extrusion"
    ELSE check_move_limits(e_lim, homeable, enabled, move)

\* ExtruderStepper.limits[0] as set_position(newpos_e, homing_e) leaves it
extruder_set_position_limits(e_lim, homing_e, homeable) ==
    IF homing_e /\ homeable THEN e_range ELSE e_lim

motor_off_limits_keeping_z(lim) == [no_limits EXCEPT ![3] = lim[3]]

\* self.limits as CartKinematicsABC._motor_off leaves it
motor_off_limits(lim) == [i \in 1..3 |-> unhomed]

\* homed_axes of CartKinematicsABC.get_status, as slots, with the slot of
\* the extruder when ExtruderStepper.get_limit_status reports it
homed_axes(lim, e_lim, homeable) ==
    {i \in 1..3 : RLeq(lim[i][1], lim[i][2])}
        \cup (IF homeable /\ RLeq(e_lim[1], e_lim[2]) THEN {pos_length} ELSE {})

KinPositions == { <<R(10), R(10), R(10), R(100)>> }
KinHomingAxes == { {}, {1}, {1, 2}, {3}, {4}, {1, 2, 3, 4} }

\* toolhead.set_position(newpos, homing_axes): the kinematic and the active
\* extruder are given the position and the axes being homed.
set_position(newpos, homing_axes) ==
    /\ HostIdle
    /\ commanded_pos' = newpos
    /\ last_position' = reset_last_position_at(is_printer_ready,
                                               position_with_transform, newpos)
    /\ limits' = set_position_limits(limits, homing_axes)
    /\ e_limits' = extruder_set_position_limits(e_limits,
                                                pos_length \in homing_axes,
                                                can_home)
    /\ last_cmd' = [name |-> "set_position", homing_axes |-> homing_axes]
    /\ steps' = steps + 1
    /\ UNCHANGED <<can_home, motor_off_count, g28, hmove, limits_enabled,
                   config, is_printer_ready, modes, base_position,
                   homing_position, factors, saved_states, transform,
                   move_count, last_move, extruders, klippy_state,
                   pending_error>>

\* stepper_enable.motor_off(): the stepper_enable:motor_off event reaches
\* the kinematic and the extruder stepper.
motor_off ==
    /\ HostIdle
    /\ limits' = motor_off_limits(limits)
    /\ e_limits' = unhomed
    /\ motor_off_count' = motor_off_count + 1
    /\ last_cmd' = [name |-> "motor_off"]
    /\ steps' = steps + 1
    /\ UNCHANGED <<can_home, g28, hmove, limits_enabled, config,
                   is_printer_ready, modes, base_position, last_position,
                   homing_position, factors, saved_states, transform,
                   toolhead, klippy_state, pending_error>>

\* CartKinematicsABC.note_z_not_homed
note_z_not_homed ==
    /\ HostIdle
    /\ limits' = [limits EXCEPT ![3] = unhomed]
    /\ last_cmd' = [name |-> "note_z_not_homed"]
    /\ steps' = steps + 1
    /\ UNCHANGED <<can_home, motor_off_count, g28, hmove, e_limits,
                   limits_enabled, config, is_printer_ready, modes,
                   base_position, last_position, homing_position, factors,
                   saved_states, transform, toolhead, klippy_state,
                   pending_error>>

\* Displacements of the moves handed to check_move
KinMoves == { <<R(240), R(70), R(0), R(0)>>, <<R(3), R(4), R(0), R(0)>>,
              <<R(0), R(0), R(10), R(0)>>, <<R(0), R(0), R(60), R(0)>>,
              <<R(11), R(0), R(60), R(0)>>, <<R(0), R(0), R(0), R(5)>> }
ExtruderMoves == { <<R(0), R(0), R(0), R(5)>>, <<R(0), R(0), R(0), R(60)>>,
                   <<R(3), R(4), R(0), R(1)>>, <<R(3), R(4), R(0), R(-1)>>,
                   <<R(1), R(0), R(0), R(5)>>,
                   <<Rat(1, 10), R(0), R(0), Rat(1, 10)>> }

move_by(d) == Move(commanded_pos, [i \in DOMAIN d |-> RAdd(commanded_pos[i], d[i])])

\* kin.check_move(move) for a move by d from the commanded position
call_check_move(d) ==
    /\ LET move == move_by(d) IN
       last_cmd' = [name |-> "check_move", move |-> move,
                    result |-> check_move(limits, move)]
    /\ UNCHANGED <<machine, config, is_printer_ready, modes, base_position,
                   last_position, homing_position, factors, saved_states,
                   transform, toolhead, klippy_state, pending_error, steps>>

\* extruder.check_move(move) for a move by d from the commanded position
call_extruder_check_move(d, can_extrude, symmetric) ==
    /\ LET move == move_by(d) IN
       last_cmd' = [name |-> "extruder_check_move", move |-> move,
                    can_extrude |-> can_extrude, symmetric |-> symmetric,
                    result |-> extruder_check_move(e_limits, can_home,
                                                   limits_enabled, can_extrude,
                                                   symmetric, move)]
    /\ UNCHANGED <<machine, config, is_printer_ready, modes, base_position,
                   last_position, homing_position, factors, saved_states,
                   transform, toolhead, klippy_state, pending_error, steps>>

InitKinematics ==
    /\ InitGCodeMove
    /\ extruders = extruders_init
    /\ limits = no_limits
    /\ motor_off_count = 0
    /\ g28 = g28_idle
    /\ stepper_positions = <<>>
    /\ debuginput = FALSE
    /\ hm = hm_idle
    /\ hr = hr_idle
    /\ e_limits = unhomed
    /\ limits_enabled \in BOOLEAN
    /\ can_home \in BOOLEAN
    /\ relative_e_restore = FALSE
    /\ axis_names = {"X", "Y", "Z"}

NextKinematics ==
    \/ \E newpos \in KinPositions, homing_axes \in KinHomingAxes :
          set_position(newpos, homing_axes)
    \/ motor_off
    \/ note_z_not_homed
    \/ \E d \in KinMoves : call_check_move(d)
    \/ \E d \in ExtruderMoves, can_extrude \in BOOLEAN, symmetric \in BOOLEAN :
          call_extruder_check_move(d, can_extrude, symmetric)

SpecKinematics == InitKinematics /\ [][NextKinematics]_vars

\* The axes a move displaces to an end outside their limits
Offending(lim, move) ==
    {i \in 1..3 : /\ move.axes_d[i] # R(0)
                  /\ out_of_limits(lim[i], move.end_pos[i])}
Min(S) == CHOOSE i \in S : \A j \in S : i <= j

\* C27: check_move rejects every move that displaces an axis i to an end
\* outside limits[i], with 'Must home axis first' when limits[i] is the
\* unhomed (1, -1) and with a plain move error otherwise, for every such
\* axis i; no move that displaces an unhomed axis is accepted, and a move
\* whose displaced axes all end inside their limits is not rejected.
C27_ErrorOfEveryOffendingAxis ==
    [][Did("check_move") =>
         LET move == last_cmd'.move
             result == last_cmd'.result
         IN
         /\ \A i \in Offending(limits, move) :
               result = IF limits[i] = unhomed THEN "must_home_axis_first"
                        ELSE "move_error"
         /\ Offending(limits, move) = {} => result = "ok"
      ]_vars

\* C27 (amended): check_move rejects a move exactly when it displaces one
\* of the axes X, Y, Z to an end outside the limits of that axis; the error
\* is the one of the first such axis in the order X, Y, Z: 'Must home axis
\* first' when that axis is unhomed, a plain move error otherwise.  No move
\* that displaces an unhomed axis is accepted.
C27_ErrorOfFirstOffendingAxis ==
    [][Did("check_move") =>
         LET move == last_cmd'.move
             result == last_cmd'.result
             bad == Offending(limits, move)
         IN
         /\ result # "ok" <=> bad # {}
         /\ bad # {} =>
               result = IF limits[Min(bad)] = unhomed
                        THEN "must_home_axis_first" ELSE "move_error"
         /\ (\E i \in 1..3 : move.axes_d[i] # R(0) /\ limits[i] = unhomed)
               => result # "ok"
      ]_vars

\* X is homed and Y is not; a move takes X beyond its range and displaces
\* Y: the plain move error of X is raised.
C27_Witness ==
    /\ last_cmd.name = "check_move"
    /\ limits[1] = rail_range(1)
    /\ limits[2] = unhomed
    /\ last_cmd.move.axes_d[1] = R(240)
    /\ last_cmd.move.axes_d[2] = R(70)
    /\ last_cmd.result = "move_error"

\* C28: the motor-off handlers reset every limit of the kinematic and the
\* limit of the extruder stepper to the unhomed (1, -1), so that no axis is
\* in homed_axes; an unhomed axis becomes homed only by a set_position that
\* names it as a homing axis, and a set_position changes the limits of no
\* axis it does not name.
C28_MotorOffUnhomesAll ==
    [][/\ Did("motor_off") =>
            /\ limits' = no_limits
            /\ e_limits' = unhomed
            /\ homed_axes(limits', e_limits', can_home) = {}
       /\ Did("set_position") =>
            /\ \A i \in 1..3 : i \notin last_cmd'.homing_axes
                                  => limits'[i] = limits[i]
            /\ pos_length \notin last_cmd'.homing_axes => e_limits' = e_limits
       /\ \A i \in homed_axes(limits', e_limits', can_home)
                     \ homed_axes(limits, e_limits, can_home) :
            Did("set_position") /\ i \in last_cmd'.homing_axes
      ]_vars

\* After a motor-off, a set_position that names X and Y as homing axes:
\* X and Y are homed, Z and the homeable extruder are not.
C28_Witness ==
    /\ last_cmd.name = "set_position"
    /\ last_cmd.homing_axes = {1, 2}
    /\ motor_off_count = 1
    /\ can_home
    /\ homed_axes(limits, e_limits, can_home) = {1, 2}
    /\ limits[3] = unhomed
    /\ e_limits = unhomed

\* C29: on a homeable extruder with limit checks enabled, a move that
\* displaces E and that PrinterExtruder.check_move accepts ends inside the
\* limits of the extruder, and is not accepted while the extruder is
\* unhomed, on whichever branch check_move takes.
C29_AcceptedMovesEndInsideLimits ==
    [][(/\ Did("extruder_check_move")
        /\ can_home
        /\ limits_enabled
        /\ last_cmd'.move.axes_d[E] # R(0)
        /\ last_cmd'.result = "ok")
         => /\ ~out_of_limits(e_limits, last_cmd'.move.end_pos[E])
            /\ e_limits # unhomed
      ]_vars

(***************************************************************************)
(* Homing with a secondary triplet (SpecABC)                               *)
(***************************************************************************)
\* The pass of kin.home for the next axis of the homing state when an index
\* is out of range: the IndexError is no command error, so the except
\* clause of home_axes does not run, and nothing was done before it.
home_rails_index_error ==
    /\ g28.active
    /\ pending_error = "none"
    /\ home_index_error(g28.axes[g28.next]) # "none"
    /\ g28' = [g28 EXCEPT !.active = FALSE]
    /\ last_cmd' = [name |-> "home_rails", axis |-> g28.axes[g28.next],
                    outcome |-> home_index_error(g28.axes[g28.next]),
                    overshoot |-> R(0), axes |-> Range(g28.axes),
                    letters |-> g28.letters]
    /\ UNCHANGED <<config, is_printer_ready, modes, base_position,
                   last_position, homing_position, factors, saved_states,
                   transform, toolhead, klippy_state, pending_error, steps,
                   can_home, limits, motor_off_count, hmove, e_limits,
                   limits_enabled>>

ABCAxisConfigs == { {"X", "Y", "Z"}, {"X", "Y", "Z", "A", "B", "C"} }
ABCG28Inputs == { {}, {"X"}, {"A"}, {"Z", "A"} }
ABCOutcomes == {"ok", "no_trigger"}
ABCG1Inputs == { Params(("X" :> Num(5)) @@ ("A" :> Num(5))) }

InitABC ==
    /\ InitGCodeMoveOn(ABCAxisConfigs)
    /\ InitMachine
    /\ can_home = FALSE
    /\ relative_e_restore = FALSE

NextABC ==
    \/ handle_ready
    \/ handle_command_error
    \/ \E params \in ABCG1Inputs : cmd_G1(params)
    \/ \E letters \in ABCG28Inputs : cmd_G28(letters)
    \/ \E outcome \in ABCOutcomes : home_rails(outcome, R(0))
    \/ home_rails_index_error

SpecABC == InitABC /\ [][NextABC]_vars

\* C30: a G28 on a machine with the secondary triplet (a position of 7
\* entries), whether it names A, B, C or any other axis, homes each of its
\* axes or ends with a command error; kin.home and home_rails never fail
\* for another reason, such as a rail index or a position index that is out
\* of range.
C30_HomingABCHomesOrCommandError ==
    [][Did("home_rails") =>
          last_cmd'.outcome \in {"ok"} \cup HomingErrors \cup {"shutdown"}
      ]_vars


(***************************************************************************)
(* HomingMove.homing_move, step by step (SpecHomingMove)                   *)
(***************************************************************************)

\* One (mcu_endstop, name) pair of self.endstops, with es.get_steppers()
Endstop(name, steppers) == [name |-> name, steppers |-> steppers]

\* The endstops of the rail being homed: a rail of one stepper, and a rail
\* of two steppers that have an endstop each
EndstopLists ==
    { <<Endstop("z", <<"stepper_z">>)>>,
      <<Endstop("z", <<"stepper_z">>), Endstop("z1", <<"stepper_z1">>)>> }

\* kin.get_steppers() of the XYZ kinematic, then the extruder steppers
AllSteppers == {"stepper_x", "stepper_y", "stepper_z", "stepper_z1"}
                  \cup ExtruderNames

\* rail.get_name() of the rails of the XYZ kinematic: a rail carries the
\* name of its first stepper
rail_names == <<"stepper_x", "stepper_y", "stepper_z">>

\* The slot of the toolhead position a stepper moves along
stepper_slot(sname) ==
    CASE sname = "stepper_x" -> 1 [] sname = "stepper_y" -> 2
      [] sname \in {"stepper_z", "stepper_z1"} -> 3 [] OTHER -> 4

\* {s.get_name(): s.get_commanded_position()} over every stepper, on a
\* toolhead at position pos
commanded_positions(pos) == [s \in AllSteppers |-> pos[stepper_slot(s)]]

\* offsets.get(sname, 0)
offsets_get(offsets, sname) ==
    IF sname \in DOMAIN offsets THEN offsets[sname] ELSE 0

\* calc_toolhead_pos: the copy of kin_spos with the offsets added
offset_kin_spos(kin_spos, offsets) ==
    [s \in AllSteppers |->
        RAdd(kin_spos[s], RMul(R(offsets_get(offsets, s)), step_dist))]

\* kin.calc_position(kin_spos)[:3], then kin_spos[extruder.name]
toolhead_pos_of(kin_spos) ==
    [pos \in 1..4 |-> IF pos <= 3 THEN kin_spos[rail_names[pos]]
                      ELSE kin_spos[extruders.active]]

\* HomingMove.calc_toolhead_pos(kin_spos, offsets)
homing_calc_toolhead_pos(kin_spos, offsets) ==
    toolhead_pos_of(offset_kin_spos(kin_spos, offsets))

\* The caller's kin_spos after calc_toolhead_pos(kin_spos, offsets) returned
kin_spos_after_in_place(kin_spos, offsets) == offset_kin_spos(kin_spos, offsets)

\* calc_toolhead_pos works on dict(kin_spos): the caller's map is untouched
kin_spos_after(kin_spos, offsets) == kin_spos

\* A StepperPosition after note_home_end
StepperPositionAt(stepper_name, endstop_name, start_pos, halt_pos, trig_pos) ==
    [stepper_name |-> stepper_name, endstop_name |-> endstop_name,
     start_pos |-> start_pos, halt_pos |-> halt_pos, trig_pos |-> trig_pos]

\* [(s, name) for es, name in self.endstops for s in es.get_steppers()]
RECURSIVE endstop_steppers(_)
endstop_steppers(endstops) ==
    IF endstops = <<>> THEN <<>>
    ELSE [i \in DOMAIN Head(endstops).steppers |->
             [stepper_name |-> Head(endstops).steppers[i],
              endstop_name |-> Head(endstops).name]]
         \o endstop_steppers(Tail(endstops))

\* Times of the host clock: a trigger during the move, and the end of the move
TriggerTime == 5
MoveEndTime == 9

\* The target of the homing move
HomingMovePos == <<R(0), R(0), R(10), R(0)>>

no_error == [kind |-> "none", name |-> ""]
Error(kind, name) == [kind |-> kind, name |-> name]

\* "if error is None: error = ..."
record_error(error, new) == IF error = no_error THEN new ELSE error

\* An entry of the history of calls homing_move makes on its collaborators
Call(op, arg) == [op |-> op, arg |-> arg]
called(op, arg) == hm' = [hm EXCEPT !.calls = Append(@, Call(op, arg))]

HomingMoveRest ==
    UNCHANGED <<config, is_printer_ready, modes, base_position,
                homing_position, factors, saved_states, transform, move_count,
                last_move, extruders, klippy_state, pending_error, steps,
                can_home, limits, motor_off_count, g28, debuginput, e_limits,
                limits_enabled, hr>>
HomingMoveUnchanged == HomingMoveRest /\ UNCHANGED last_position

\* homing_move(movepos, speed, probe_pos, triggered, check_triggered), up to
\* send_event("homing:homing_move_begin")
homing_move(endstops, probe_pos, check_triggered) ==
    /\ hm.pc = "idle"
    /\ hm' = [pc |-> "flush", endstops |-> endstops, probe_pos |-> probe_pos,
              check_triggered |-> check_triggered, movepos |-> HomingMovePos,
              kin_spos |-> <<>>, i |-> 1,
              waits |-> [e \in DOMAIN endstops |-> "unarmed"],
              cp |-> [member |-> 0, result |-> "none"],
              fired |-> [e \in DOMAIN endstops |-> FALSE], joined |-> FALSE,
              drip |-> "none", error |-> no_error,
              home_waits |-> [e \in DOMAIN endstops |-> "none"],
              trigger_times |-> [e \in DOMAIN endstops |-> 0],
              tts |-> <<>>, set_positions |-> <<>>, trigpos |-> <<>>,
              handler_raised |-> FALSE, outcome |-> "running",
              calls |-> <<Call("homing_move_begin", "")>>]
    /\ last_cmd' = [name |-> "homing_move_begin"]
    /\ UNCHANGED <<commanded_pos, stepper_positions>>
    /\ HomingMoveUnchanged

\* flush_step_generation(), kin_spos and the StepperPosition list, whose
\* halt_pos and trig_pos are None (absent) until note_home_end
flush_step_generation ==
    /\ hm.pc = "flush"
    /\ hm' = [hm EXCEPT !.pc = "home_start",
                        !.kin_spos = commanded_positions(commanded_pos),
                        !.calls = Append(@, Call("flush_step_generation", ""))]
    /\ stepper_positions' =
         [k \in DOMAIN endstop_steppers(hm.endstops) |->
             [stepper_name |-> endstop_steppers(hm.endstops)[k].stepper_name,
              endstop_name |-> endstop_steppers(hm.endstops)[k].endstop_name,
              start_pos |-> StartPos]]
    /\ last_cmd' = [name |-> "flush_step_generation"]
    /\ UNCHANGED commanded_pos
    /\ HomingMoveUnchanged

home_start_first_only(i, n) == "dwell"

\* "for mcu_endstop, name in self.endstops": what follows home_start on
\* endstop i of n
after_home_start(i, n) == IF i < n THEN "home_start" ELSE "dwell"

\* multi_complete(printer, completions): the one completion itself, or a
\* new completion with a callback per member and one that waits for all
multi_complete(completions) ==
    IF Len(completions) = 1 THEN [member |-> 1, result |-> "pending"]
    ELSE [member |-> 0, result |-> "pending"]

\* mcu_endstop.home_start(...) on endstop hm.i; after the last one,
\* multi_complete(endstop_triggers)
home_start ==
    /\ hm.pc = "home_start"
    /\ LET n == Len(hm.endstops)
           waits == [hm.waits EXCEPT ![hm.i] = "pending"]
       IN hm' = [hm EXCEPT !.pc = after_home_start(hm.i, n),
                           !.i = IF hm.i < n THEN hm.i + 1 ELSE 1,
                           !.waits = waits,
                           !.cp = IF after_home_start(hm.i, n) = "dwell"
                                  THEN multi_complete(waits) ELSE @,
                           !.calls = Append(@, Call("home_start",
                                                    hm.endstops[hm.i].name))]
    /\ last_cmd' = [name |-> "home_start"]
    /\ UNCHANGED <<commanded_pos, stepper_positions>>
    /\ HomingMoveUnchanged

\* toolhead.dwell(HOMING_START_DELAY)
dwell ==
    /\ hm.pc = "dwell"
    /\ hm' = [hm EXCEPT !.pc = "drip_move",
                        !.calls = Append(@, Call("dwell", ""))]
    /\ last_cmd' = [name |-> "dwell"]
    /\ UNCHANGED <<commanded_pos, stepper_positions>>
    /\ HomingMoveUnchanged

\* toolhead.drip_move(movepos, speed, all_endstop_trigger) starts
drip_move ==
    /\ hm.pc = "drip_move"
    /\ hm' = [hm EXCEPT !.pc = "dripping",
                        !.calls = Append(@, Call("drip_move", ""))]
    /\ last_cmd' = [name |-> "drip_move"]
    /\ UNCHANGED <<commanded_pos, stepper_positions>>
    /\ HomingMoveUnchanged

\* The completion home_start returned for endstop e resolves: with "1" when
\* the microcontroller reports a trigger, with "0" when the wait times out
endstop_report(e, result) ==
    /\ hm.pc = "dripping"
    /\ e \in DOMAIN hm.waits
    /\ hm.waits[e] = "pending"
    /\ hm' = [hm EXCEPT !.waits[e] = result]
    /\ last_cmd' = [name |-> "endstop_report"]
    /\ UNCHANGED <<commanded_pos, stepper_positions>>
    /\ HomingMoveUnchanged

\* Has the completion c (of multi_complete) resolved?
resolved(h) ==
    IF h.cp.member # 0 THEN h.waits[h.cp.member] \in {"0", "1"}
    ELSE h.cp.result \notin {"none", "pending"}

member_callback_any_result(result) == TRUE

\* "cp.complete(1) if c.wait() else 0"
member_callback_completes(result) == result # "0"

\* The reactor callback multi_complete registered for member c
member_callback(c) ==
    /\ hm.pc \in {"dripping", "home_wait"}
    /\ hm.cp.member = 0
    /\ c \in DOMAIN hm.waits
    /\ hm.waits[c] \in {"0", "1"}
    /\ ~hm.fired[c]
    /\ hm' = [hm EXCEPT !.fired[c] = TRUE,
                        !.cp.result =
                           IF member_callback_completes(hm.waits[c])
                           THEN "one" ELSE @]
    /\ last_cmd' = [name |-> "member_callback"]
    /\ UNCHANGED <<commanded_pos, stepper_positions>>
    /\ HomingMoveUnchanged

\* The reactor callback "[c.wait() for c in completions]", whose return
\* completes cp
join_callback ==
    /\ hm.pc \in {"dripping", "home_wait"}
    /\ hm.cp.member = 0
    /\ ~hm.joined
    /\ \A c \in DOMAIN hm.waits : hm.waits[c] \in {"0", "1"}
    /\ hm' = [hm EXCEPT !.joined = TRUE, !.cp.result = "all"]
    /\ last_cmd' = [name |-> "join_callback"]
    /\ UNCHANGED <<commanded_pos, stepper_positions>>
    /\ HomingMoveUnchanged

DripOutcomes == {"completion", "exhausted", "error"}

\* drip_move returns because the completion resolved or the move reached
\* its target, or raises a command error
drip_move_end(outcome) ==
    /\ hm.pc = "dripping"
    /\ outcome = "completion" => resolved(hm)
    /\ hm' = [hm EXCEPT !.pc = "home_wait", !.i = 1, !.drip = outcome,
                        !.error = IF outcome = "error"
                                  THEN Error("homing_move", "") ELSE @]
    /\ last_cmd' = [name |-> "drip_move_end", outcome |-> outcome]
    /\ UNCHANGED <<commanded_pos, stepper_positions>>
    /\ HomingMoveUnchanged


home_wait_error_unchecked(error, check_triggered, name, raises, trigger_time) ==
    IF raises THEN record_error(error, Error("homing", name))
    ELSE IF trigger_time > 0 THEN error
    ELSE record_error(error, Error("no_trigger", name))

\* The error recorded once home_wait on the endstop name raised, or
\* returned trigger_time
home_wait_error(error, check_triggered, name, raises, trigger_time) ==
    IF raises THEN record_error(error, Error("homing", name))
    ELSE IF trigger_time > 0 THEN error
    ELSE IF check_triggered /\ error = no_error THEN Error("no_trigger", name)
    ELSE error

after_home_wait_stop_at_error(i, n, error) ==
    IF i < n /\ error = no_error THEN "home_wait" ELSE "flush_end"

\* "for mcu_endstop, name in self.endstops": what follows home_wait on
\* endstop i of n
after_home_wait(i, n, error) == IF i < n THEN "home_wait" ELSE "flush_end"

\* mcu_endstop.home_wait(move_end_print_time) on endstop hm.i raises a
\* command error or returns trigger_time
home_wait(raises, trigger_time) ==
    /\ hm.pc = "home_wait"
    /\ raises => trigger_time = 0
    /\ hm.waits[hm.i] = "1" => (raises \/ trigger_time > 0)
    /\ hm.waits[hm.i] = "0" => trigger_time = 0
    /\ LET n == Len(hm.endstops)
           name == hm.endstops[hm.i].name
           error == home_wait_error(hm.error, hm.check_triggered, name,
                                    raises, trigger_time)
           pc == after_home_wait(hm.i, n, error)
       IN hm' = [hm EXCEPT
                   !.pc = pc,
                   !.i = IF pc = "home_wait" THEN hm.i + 1 ELSE 1,
                   !.error = error,
                   !.waits[hm.i] = IF @ # "pending" THEN @
                                   ELSE IF trigger_time > 0 THEN "1" ELSE "0",
                   !.home_waits[hm.i] = IF raises THEN "raised"
                                        ELSE IF trigger_time > 0 THEN "time"
                                        ELSE "0",
                   !.trigger_times[hm.i] = trigger_time,
                   !.calls = Append(@, Call("home_wait", name))]
    /\ last_cmd' = [name |-> "home_wait"]
    /\ UNCHANGED <<commanded_pos, stepper_positions>>
    /\ HomingMoveUnchanged

\* toolhead.flush_step_generation() after the endstops were waited on
flush_step_generation_end ==
    /\ hm.pc = "flush_end"
    /\ hm' = [hm EXCEPT !.pc = "note_home_end",
                        !.calls = Append(@, Call("flush_step_generation", ""))]
    /\ last_cmd' = [name |-> "flush_step_generation_end"]
    /\ UNCHANGED <<commanded_pos, stepper_positions>>
    /\ HomingMoveUnchanged

\* trigger_times.get(sp.endstop_name, move_end_print_time)
trigger_time_of(h, endstop_name) ==
    LET e == CHOOSE e \in DOMAIN h.endstops :
                 h.endstops[e].name = endstop_name
    IN IF h.trigger_times[e] > 0 THEN h.trigger_times[e] ELSE MoveEndTime

\* sp.note_home_end(tt) on every StepperPosition: stepper k has made
\* moved[k] steps by the time tt and over[k] steps after it
note_home_end(moved, over) ==
    /\ hm.pc = "note_home_end"
    /\ LET tts == [k \in DOMAIN stepper_positions |->
                      trigger_time_of(hm, stepper_positions[k].endstop_name)]
       IN /\ \A k \in DOMAIN tts : tts[k] = MoveEndTime => over[k] = 0
          /\ stepper_positions' =
               [k \in DOMAIN stepper_positions |->
                   StepperPositionAt(stepper_positions[k].stepper_name,
                                     stepper_positions[k].endstop_name,
                                     stepper_positions[k].start_pos,
                                     StartPos + moved[k] + over[k],
                                     StartPos + moved[k])]
          /\ hm' = [hm EXCEPT !.pc = "set_position", !.tts = tts,
                              !.calls = Append(@, Call("note_home_end", ""))]
    /\ last_cmd' = [name |-> "note_home_end"]
    /\ UNCHANGED commanded_pos
    /\ HomingMoveUnchanged

\* {sp.stepper_name: sp.trig_pos - sp.start_pos for sp in ...}
homing_trig_steps(sps) ==
    [s \in {sps[k].stepper_name : k \in DOMAIN sps} |->
        LET k == CHOOSE k \in DOMAIN sps : sps[k].stepper_name = s
        IN sps[k].trig_pos - sps[k].start_pos]

\* {sp.stepper_name: sp.halt_pos - sp.start_pos for sp in ...}
homing_halt_steps(sps) ==
    [s \in {sps[k].stepper_name : k \in DOMAIN sps} |->
        LET k == CHOOSE k \in DOMAIN sps : sps[k].stepper_name = s
        IN sps[k].halt_pos - sps[k].start_pos]

\* {sp.stepper_name: sp.halt_pos - sp.trig_pos for sp in ...}
homing_over_steps(sps) ==
    [s \in {sps[k].stepper_name : k \in DOMAIN sps} |->
        LET k == CHOOSE k \in DOMAIN sps : sps[k].stepper_name = s
        IN sps[k].halt_pos - sps[k].trig_pos]

\* The probe_pos branch: trigpos, the positions set on the toolhead, and
\* the caller's kin_spos afterwards
probe_correction(kin_spos, sps) ==
    LET trig == homing_trig_steps(sps)
        halt == homing_halt_steps(sps)
        trigpos == homing_calc_toolhead_pos(kin_spos, trig)
        kin_spos1 == kin_spos_after(kin_spos, trig)
        haltpos == IF trig # halt
                   THEN homing_calc_toolhead_pos(kin_spos1, halt)
                   ELSE trigpos
        kin_spos2 == IF trig # halt THEN kin_spos_after(kin_spos1, halt)
                     ELSE kin_spos1
    IN [trigpos |-> trigpos, set_positions |-> <<haltpos>>,
        kin_spos |-> kin_spos2]

homing_correction_always_twice(kin_spos, movepos, sps) ==
    LET over_steps == homing_over_steps(sps)
        haltpos == homing_calc_toolhead_pos(commanded_positions(movepos),
                                            over_steps)
    IN [trigpos |-> movepos, set_positions |-> <<movepos, haltpos>>,
        kin_spos |-> kin_spos]

\* The homing branch: trigpos = movepos, and toolhead.set_position(movepos)
\* before calc_halt_kin_spos when a stepper made steps after its trigger
homing_correction(kin_spos, movepos, sps) ==
    LET over_steps == homing_over_steps(sps)
        any_over == \E s \in DOMAIN over_steps : over_steps[s] # 0
        halt_kin_spos == commanded_positions(movepos)
        haltpos == IF any_over
                   THEN homing_calc_toolhead_pos(halt_kin_spos, over_steps)
                   ELSE movepos
    IN [trigpos |-> movepos,
        set_positions |-> IF any_over THEN <<movepos, haltpos>>
                          ELSE <<haltpos>>,
        kin_spos |-> kin_spos]

RECURSIVE set_position_calls(_)
set_position_calls(n) ==
    IF n = 0 THEN <<>>
    ELSE set_position_calls(n - 1) \o <<Call("set_position", "")>>

\* "if probe_pos: ... else: ...": the toolhead is set to the position the
\* steppers halted at
correct_position ==
    /\ hm.pc = "set_position"
    /\ LET c == IF hm.probe_pos
                THEN probe_correction(hm.kin_spos, stepper_positions)
                ELSE homing_correction(hm.kin_spos, hm.movepos,
                                       stepper_positions)
           haltpos == c.set_positions[Len(c.set_positions)]
       IN /\ hm' = [hm EXCEPT
                      !.pc = "end_event",
                      !.trigpos = c.trigpos,
                      !.set_positions = c.set_positions,
                      !.kin_spos = c.kin_spos,
                      !.calls = @ \o set_position_calls(Len(c.set_positions))]
          /\ commanded_pos' = haltpos
          /\ last_position' =
               reset_last_position_at(is_printer_ready,
                                      position_with_transform, haltpos)
    /\ last_cmd' = [name |-> "correct_position"]
    /\ UNCHANGED stepper_positions
    /\ HomingMoveRest

\* send_event("homing:homing_move_end"), whose handler may raise a command
\* error; then "raise command_error(error)" or "return trigpos"
homing_move_end(handler_raises) ==
    /\ hm.pc = "end_event"
    /\ LET error == IF handler_raises
                    THEN record_error(hm.error, Error("handler", ""))
                    ELSE hm.error
       IN hm' = [hm EXCEPT
                   !.pc = "done", !.error = error,
                   !.handler_raised = handler_raises,
                   !.outcome = IF error # no_error THEN "raised"
                               ELSE "returned",
                   !.calls = Append(@, Call("homing_move_end", ""))]
    /\ last_cmd' = [name |-> "homing_move_end"]
    /\ UNCHANGED <<commanded_pos, stepper_positions>>
    /\ HomingMoveUnchanged

InitHomingMove ==
    /\ InitGCodeMove
    /\ InitMachine
    /\ can_home = FALSE
    /\ relative_e_restore = FALSE
    /\ axis_names = {"X", "Y", "Z"}

NextHomingMove ==
    \/ \E endstops \in EndstopLists, probe_pos \in BOOLEAN,
          check_triggered \in BOOLEAN :
          homing_move(endstops, probe_pos, check_triggered)
    \/ flush_step_generation
    \/ home_start
    \/ dwell
    \/ drip_move
    \/ \E e \in 1..2, result \in {"0", "1"} :
          endstop_report(e, result)
    \/ \E c \in 1..2 : member_callback(c)
    \/ join_callback
    \/ \E outcome \in DripOutcomes : drip_move_end(outcome)
    \/ \E raises \in BOOLEAN, trigger_time \in {0, TriggerTime} :
          home_wait(raises, trigger_time)
    \/ flush_step_generation_end
    \/ \E moved \in [DOMAIN stepper_positions -> TrigSteps],
          over \in [DOMAIN stepper_positions -> OverSteps] :
          note_home_end(moved, over)
    \/ correct_position
    \/ \E handler_raises \in BOOLEAN : homing_move_end(handler_raises)

SpecHomingMove == InitHomingMove /\ [][NextHomingMove]_vars


\* The calls of the running homing_move from position from on are the op
\* on every endstop, in the order of self.endstops
OnEveryEndstop(op, from) ==
    \A e \in DOMAIN hm.endstops :
       /\ from + e \in DOMAIN hm.calls
       /\ hm.calls[from + e] = Call(op, hm.endstops[e].name)

\* C31: in every homing_move the calls occur in this order:
\* homing:homing_move_begin is emitted, step generation is flushed,
\* home_start is called on every endstop (so that all are armed), the start
\* delay is dwelt, and only then drip_move is called; after drip_move
\* returned, home_wait is called on every endstop and step generation is
\* flushed again before the halt and trigger position of any stepper is read.
C31_HomingMoveOrder ==
    hm.pc # "idle" =>
       LET n == Len(hm.endstops) IN
       /\ hm.calls[1].op = "homing_move_begin"
       /\ \A k \in DOMAIN hm.calls :
             /\ hm.calls[k].op = "drip_move" =>
                   /\ k = n + 4
                   /\ hm.calls[2].op = "flush_step_generation"
                   /\ OnEveryEndstop("home_start", 2)
                   /\ \A e \in DOMAIN hm.waits : hm.waits[e] # "unarmed"
                   /\ hm.calls[n + 3].op = "dwell"
             /\ hm.calls[k].op = "note_home_end" =>
                   /\ k = 2 * n + 6
                   /\ hm.calls[n + 4].op = "drip_move"
                   /\ hm.drip # "none"
                   /\ OnEveryEndstop("home_wait", n + 4)
                   /\ hm.calls[2 * n + 5].op = "flush_step_generation"

C31_Witness ==
    /\ hm.pc = "done"
    /\ Len(hm.endstops) = 2
    /\ hm.drip = "completion"
    /\ \E k \in DOMAIN hm.calls : hm.calls[k].op = "note_home_end"


\* The reactor runs a registered callback that can run, and drip_move
\* returns once the completion it was given has a result.
SpecHomingMoveFair ==
    /\ SpecHomingMove
    /\ \A c \in 1..2 : WF_vars(member_callback(c))
    /\ WF_vars(join_callback)
    /\ WF_vars(drip_move_end("completion"))

Triggered(e) == hm.waits[e] = "1"
Resolved(e) == hm.waits[e] \in {"0", "1"}

\* What multi_complete promises of the completion it returned
CombinedCompletion ==
    hm.pc \notin {"idle", "flush", "home_start"} =>
       /\ Len(hm.endstops) = 1 => hm.cp.member = 1
       /\ resolved(hm) =>
             \/ \E e \in DOMAIN hm.waits : Triggered(e)
             \/ \A e \in DOMAIN hm.waits : Resolved(e)
       /\ hm.drip = "completion" =>
             \/ \E e \in DOMAIN hm.waits : Triggered(e)
             \/ \A e \in DOMAIN hm.waits : Resolved(e)

Dripping == hm.pc = "dripping"

CountCalls(op) == Cardinality({k \in DOMAIN hm.calls : hm.calls[k].op = op})
LastCall == hm.calls[Len(hm.calls)]

\* homing_move_end is emitted exactly once, as the last thing before the
\* homing move returns or raises, after every endstop was waited on, step
\* generation was flushed and the toolhead position was set.
EndEventOnce ==
    LET n == Len(hm.endstops) IN
    /\ CountCalls("homing_move_begin") = 1
    /\ CountCalls("homing_move_end") = 1
    /\ LastCall.op = "homing_move_end"
    /\ OnEveryEndstop("home_wait", n + 4)
    /\ hm.calls[2 * n + 5].op = "flush_step_generation"
    /\ hm.calls[Len(hm.calls) - 1].op = "set_position"
    /\ hm.set_positions # <<>>
    /\ commanded_pos = hm.set_positions[Len(hm.set_positions)]
    /\ hm.outcome = IF hm.error = no_error THEN "returned" ELSE "raised"

\* The endstops whose home_wait raised, and those that did not trigger
\* although check_triggered asked for it
Raised(e) == hm.home_waits[e] = "raised"
NoTrigger(e) == hm.check_triggered /\ hm.home_waits[e] = "0"
First(S) == CHOOSE e \in S : \A o \in S : e <= o

\* The error of the highest kind that occurred: drip_move, then home_wait,
\* then no trigger, then the handler of the end event
ErrorByKind ==
    LET raised == {e \in DOMAIN hm.endstops : Raised(e)}
        silent == {e \in DOMAIN hm.endstops : NoTrigger(e)}
    IN IF hm.drip = "error" THEN Error("homing_move", "")
       ELSE IF raised # {}
            THEN Error("homing", hm.endstops[First(raised)].name)
       ELSE IF silent # {}
            THEN Error("no_trigger", hm.endstops[First(silent)].name)
       ELSE IF hm.handler_raised THEN Error("handler", "")
       ELSE no_error

\* The error recorded first: drip_move, then endstop by endstop the error
\* of its home_wait or its missing trigger, then the handler of the end
\* event
ErrorFirstRecorded ==
    LET failed == {e \in DOMAIN hm.endstops : Raised(e) \/ NoTrigger(e)}
    IN IF hm.drip = "error" THEN Error("homing_move", "")
       ELSE IF failed # {}
            THEN Error(IF Raised(First(failed)) THEN "homing"
                       ELSE "no_trigger", hm.endstops[First(failed)].name)
       ELSE IF hm.handler_raised THEN Error("handler", "")
       ELSE no_error

\* C33 as stated: every homing_move that emitted homing_move_begin emits
\* homing_move_end exactly once before it returns or raises, also when
\* drip_move or a home_wait raised, and the error raised is the first in the
\* order drip_move error, home_wait errors in endstop order, no-trigger
\* error, end-event handler error.
C33_ErrorInOrderOfKind ==
    hm.pc = "done" => EndEventOnce /\ hm.error = ErrorByKind

\* C33, amended: every homing_move that emitted homing_move_begin emits
\* homing_move_end exactly once before it returns or raises, also when
\* drip_move or a home_wait raised: every endstop is still waited on, step
\* generation is flushed and the toolhead position is set before the end
\* event.  The error raised is the first recorded: the drip_move error,
\* then, endstop by endstop, the error of its home_wait or its no-trigger
\* error, then the error of an end-event handler.
C33_EndEventAndFirstError ==
    hm.pc = "done" => EndEventOnce /\ hm.error = ErrorFirstRecorded

C33_Witness ==
    /\ hm.pc = "done"
    /\ Len(hm.endstops) = 2
    /\ hm.drip = "error"
    /\ Raised(1)
    /\ hm.handler_raised
    /\ hm.outcome = "raised"
    /\ hm.error = Error("homing_move", "")


\* The no-trigger error of endstop e is the recorded error
NoTriggerRecorded(e) == hm.error = Error("no_trigger", hm.endstops[e].name)

\* No error was recorded before home_wait on endstop e returned
NoEarlierError(e) ==
    /\ hm.drip # "error"
    /\ \A o \in 1..(e - 1) : ~Raised(o) /\ ~NoTrigger(o)

\* C34: 'No trigger on <name> after full movement' is recorded exactly when
\* check_triggered is true, home_wait returned 0 for that endstop and no
\* error was recorded earlier, and it is raised only after home_wait was
\* called on every endstop.  With check_triggered false, a homing_move in
\* which no endstop triggers (and nothing else fails) returns trigpos
\* without error, and the trigger time of every stepper is the end time of
\* the move.
C34_NoTrigger ==
    /\ hm.pc \notin {"idle", "flush", "home_start", "dwell", "drip_move",
                     "dripping"} =>
          \A e \in DOMAIN hm.endstops :
             (hm.pc = "home_wait" => e < hm.i) =>
                (NoTriggerRecorded(e) <=>
                    /\ hm.check_triggered
                    /\ hm.home_waits[e] = "0"
                    /\ NoEarlierError(e))
    /\ (hm.pc # "idle" /\ hm.outcome = "raised"
           /\ hm.error.kind = "no_trigger") =>
          OnEveryEndstop("home_wait", Len(hm.endstops) + 4)
    /\ (/\ hm.pc = "done"
        /\ ~hm.check_triggered
        /\ \A e \in DOMAIN hm.endstops : hm.home_waits[e] = "0"
        /\ hm.drip # "error"
        /\ ~hm.handler_raised) =>
          /\ hm.outcome = "returned"
          /\ hm.error = no_error
          /\ hm.trigpos # <<>>
          /\ \A k \in DOMAIN hm.tts : hm.tts[k] = MoveEndTime
          /\ \A k \in DOMAIN stepper_positions :
                stepper_positions[k].trig_pos = stepper_positions[k].halt_pos

C34_Witness ==
    /\ hm.pc = "done"
    /\ Len(hm.endstops) = 2
    /\ hm.check_triggered
    /\ hm.home_waits[1] = "time"
    /\ hm.home_waits[2] = "0"
    /\ hm.outcome = "raised"
    /\ NoTriggerRecorded(2)

\* A homing move without check_triggered in which no endstop triggered
C34_WitnessUnchecked ==
    /\ hm.pc = "done"
    /\ ~hm.check_triggered
    /\ \A e \in DOMAIN hm.endstops : hm.home_waits[e] = "0"
    /\ hm.outcome = "returned"


\* A homing move (probe_pos false) that has corrected the toolhead position
HomingCorrected == hm.pc \in {"end_event", "done"} /\ ~hm.probe_pos
Overshot(sp) == sp.halt_pos # sp.trig_pos

\* The positions toolhead.set_position was called with: movepos only when
\* no stepper overshot, movepos and then the final position otherwise
HomingSetPositions ==
    /\ hm.trigpos = hm.movepos
    /\ hm.set_positions[1] = hm.movepos
    /\ Len(hm.set_positions) =
          IF \E k \in DOMAIN stepper_positions : Overshot(stepper_positions[k])
          THEN 2 ELSE 1
    /\ CountCalls("set_position") = Len(hm.set_positions)
    /\ commanded_pos = hm.set_positions[Len(hm.set_positions)]

\* movepos[slot] moved by n steps
MovedBy(slot, n) == RAdd(hm.movepos[slot], RMul(R(n), step_dist))

\* C35 as stated: on the homing path the value returned is trigpos =
\* movepos; when no stepper overshot, toolhead.set_position is called
\* exactly once, with movepos; when some stepper overshot, the toolhead is
\* set to movepos and then to haltpos, whose coordinate on the axis of each
\* overshooting stepper differs from movepos by (halt_pos - trig_pos) *
\* step_distance, and haltpos is the final toolhead position.
C35_HaltposOfEveryStepper ==
    HomingCorrected =>
       /\ HomingSetPositions
       /\ \A k \in DOMAIN stepper_positions :
             LET sp == stepper_positions[k] IN
             Overshot(sp) =>
                commanded_pos[stepper_slot(sp.stepper_name)] =
                   MovedBy(stepper_slot(sp.stepper_name),
                           sp.halt_pos - sp.trig_pos)

\* C35, amended: on the homing path the value returned is trigpos =
\* movepos; when no stepper overshot, toolhead.set_position is called
\* exactly once, with movepos; when some stepper overshot, the toolhead is
\* set to movepos and then to haltpos, the final toolhead position, whose
\* coordinate on the axis of each rail differs from movepos by (halt_pos -
\* trig_pos) * step_distance of the stepper the rail is named after; the
\* overshoot of another stepper of the rail does not enter haltpos.
C35_HaltposOfRailStepper ==
    HomingCorrected =>
       /\ HomingSetPositions
       /\ \A slot \in 1..3 :
             commanded_pos[slot] =
                MovedBy(slot, offsets_get(homing_over_steps(stepper_positions),
                                          rail_names[slot]))
       /\ commanded_pos[4] = hm.movepos[4]

C35_Witness ==
    /\ hm.pc = "done"
    /\ ~hm.probe_pos
    /\ Len(stepper_positions) = 2
    /\ Overshot(stepper_positions[1])
    /\ ~Overshot(stepper_positions[2])
    /\ hm.set_positions = <<hm.movepos, commanded_pos>>
    /\ commanded_pos[3] = Rat(51, 5)


\* The commanded position of every stepper when the move started
StartCommanded == commanded_positions(Zeros)

\* A probing move (probe_pos true) that has corrected the toolhead position
ProbeCorrected == hm.pc \in {"end_event", "done"} /\ hm.probe_pos

\* The toolhead position of steppers that made stepcount[s] steps from the
\* commanded positions at the start of the move
PositionAfter(stepcount) ==
    [slot \in 1..4 |->
        LET s == IF slot <= 3 THEN rail_names[slot] ELSE extruders.active
        IN RAdd(StartCommanded[s],
                RMul(R(offsets_get(stepcount, s)), step_dist))]

\* C36: on the probing path (probe_pos true) trigpos is the commanded
\* positions at the start plus (trig_pos - start_pos) * step_distance per
\* stepper, mapped through the kinematics, and haltpos the same from
\* (halt_pos - start_pos); haltpos equals trigpos whenever the trig steps
\* equal the halt steps; the toolhead position is set exactly once, to
\* haltpos; the value returned is trigpos; and the kin_spos map captured at
\* the start of the move is not modified by the computation.
C36_ProbingCorrection ==
    ProbeCorrected =>
       LET trig == homing_trig_steps(stepper_positions)
           halt == homing_halt_steps(stepper_positions)
       IN /\ hm.trigpos = PositionAfter(trig)
          /\ hm.set_positions = <<PositionAfter(halt)>>
          /\ CountCalls("set_position") = 1
          /\ commanded_pos = PositionAfter(halt)
          /\ trig = halt => commanded_pos = hm.trigpos
          /\ hm.kin_spos = StartCommanded
          /\ (hm.pc = "done" /\ hm.outcome = "returned") =>
                hm.trigpos = PositionAfter(trig)

C36_Witness ==
    /\ hm.pc = "done"
    /\ hm.probe_pos
    /\ hm.outcome = "returned"
    /\ stepper_positions[1].trig_pos = StartPos + 5
    /\ stepper_positions[1].halt_pos = StartPos + 7
    /\ hm.trigpos[3] = Rat(1, 2)
    /\ commanded_pos[3] = Rat(7, 10)
    /\ hm.kin_spos = StartCommanded


(***************************************************************************)
(* Homing.home_rails, step by step (SpecHomeRails)                         *)
(***************************************************************************)

\* hi.retract_dist of the rails
RetractDists == {R(0), R(5), R(400)}

\* The steppers of the rail of a slot: one, or two with an endstop each
second_stepper == <<"stepper_x1", "stepper_y1", "stepper_z1">>
RailSteppers(axis) ==
    { <<rail_names[axis]>>, <<rail_names[axis], second_stepper[axis]>> }

\* hmove.stepper_positions after a homing move of the rail of a slot
RailStepperPositions(axis) ==
    UNION { { [i \in DOMAIN steppers |->
                  StepperPosition(steppers[i], steppers[i], StartPos,
                                  StartPos + trig[i])] :
              trig \in [DOMAIN steppers -> TrigSteps] } :
            steppers \in RailSteppers(axis) }

\* The adjustments handlers of homing:home_rails_end register with
\* set_stepper_adjustment, by the rail the stepper gives its name to
AdjustPositions ==
    { [i \in 1..3 |-> IF i = rail THEN Rat(1, 10) ELSE R(0)] : rail \in 0..3 }

\* The axis lists kin.home is run with
HomeAxes == { <<1>>, <<1, 3>> }

\* self._fill_coord(coord) with a coord that is None but on axis
fill_coord(axis, value) == [commanded_pos EXCEPT ![axis] = value]

\* retract_r = min(1., hi.retract_dist / move_d), where move_d is the
\* distance between the forced start and the home position
retract_r(axis, retract_dist) ==
    LET move_d == RAbs(RSub(home_axis_homepos(axis), home_axis_forcepos(axis)))
        ratio == RDiv(retract_dist, move_d)
    IN IF RLeq(R(1), ratio) THEN R(1) ELSE ratio

\* axes_d[axis] * retract_r
retract_d(axis, retract_dist) ==
    RMul(RSub(home_axis_homepos(axis), home_axis_forcepos(axis)),
         retract_r(axis, retract_dist))

\* retractpos = [hp - ad * retract_r for hp, ad in zip(homepos, axes_d)]
retractpos(axis, retract_dist) ==
    fill_coord(axis, RSub(home_axis_homepos(axis),
                          retract_d(axis, retract_dist)))

retract_startpos_at_retractpos(axis, retract_dist) ==
    retractpos(axis, retract_dist)

\* startpos = [rp - ad * retract_r for rp, ad in zip(retractpos, axes_d)]
retract_startpos(axis, retract_dist) ==
    fill_coord(axis, RSub(retractpos(axis, retract_dist)[axis],
                          retract_d(axis, retract_dist)))

\* hi.retract_speed
retract_speed == R(10)

hr_axis_last_first == hr.axes[Len(hr.axes) + 1 - hr.next]

\* "for axis in homing_state.get_axes()": the axis home_rails is homing,
\* and its letter
hr_axis == hr.axes[hr.next]
hr_letter == axis_list[hr_axis]
hr_called(pc, op, arg) ==
    hr' = [hr EXCEPT !.pc = pc, !.calls = Append(@, Call(op, arg))]

HomeRailsRest ==
    UNCHANGED <<config, is_printer_ready, modes, homing_position, factors,
                saved_states, transform, extruders, klippy_state,
                pending_error, steps, can_home, motor_off_count, g28,
                debuginput, e_limits, limits_enabled, hm>>

\* toolhead.set_position(newpos, homing_axes) and the handlers of the
\* toolhead:set_position event
hr_set_position(newpos, homing_axes) ==
    /\ commanded_pos' = newpos
    /\ limits' = set_position_limits(limits, homing_axes)
    /\ last_position' = reset_last_position_at(is_printer_ready,
                                               position_with_transform, newpos)

\* kin.home(homing_state) starts: "for axis in homing_state.get_axes()"
home(axes, retract_dist) ==
    /\ hr.pc = "idle"
    /\ hr.calls = <<>>
    /\ pending_error = "none"
    /\ hr' = [hr EXCEPT !.pc = "begin", !.axes = axes, !.next = 1,
                        !.retract_dist = retract_dist]
    /\ last_cmd' = [name |-> "home"]
    /\ UNCHANGED <<commanded_pos, limits, last_position, base_position,
                   move_count, last_move, stepper_positions>>
    /\ HomeRailsRest

\* _home_axis and home_rails up to send_event("homing:home_rails_begin")
home_rails_begin ==
    /\ hr.pc = "begin"
    /\ hr_called("force", "home_rails_begin", hr_letter)
    /\ last_cmd' = [name |-> "home_rails_begin"]
    /\ UNCHANGED <<commanded_pos, limits, last_position, base_position,
                   move_count, last_move, stepper_positions>>
    /\ HomeRailsRest

\* toolhead.set_position(startpos, homing_axes=homing_axes)
force_position ==
    /\ hr.pc = "force"
    /\ hr_set_position(fill_coord(hr_axis, home_axis_forcepos(hr_axis)),
                       {hr_axis})
    /\ hr_called("homing_move", "set_position", "")
    /\ last_cmd' = [name |-> "force_position"]
    /\ UNCHANGED <<base_position, move_count, last_move, stepper_positions>>
    /\ HomeRailsRest

HomeRailsOutcomes == {"ok", "error"}

\* "if hi.retract_dist:" once the first homing move returned
after_first_move(outcome, retract_dist) ==
    IF outcome # "ok" THEN "raised"
    ELSE IF retract_dist # R(0) THEN "retract" ELSE "end"

\* hmove.homing_move(homepos, hi.speed): the toolhead halts overshoot past
\* the home position, the steppers are left at sps
first_homing_move(outcome, overshoot, sps) ==
    /\ hr.pc = "homing_move"
    /\ hr_set_position(fill_coord(hr_axis, RAdd(home_axis_homepos(hr_axis),
                                                overshoot)), {})
    /\ stepper_positions' = sps
    /\ hr' = [hr EXCEPT
                !.pc = after_first_move(outcome, hr.retract_dist),
                !.error = IF outcome = "ok" THEN @
                          ELSE Error("homing_move", ""),
                !.calls = @ \o <<Call("homing_move", "speed"),
                                 Call("set_position", "")>>]
    /\ last_cmd' = [name |-> "first_homing_move", outcome |-> outcome]
    /\ UNCHANGED <<base_position, move_count, last_move>>
    /\ HomeRailsRest

\* self.toolhead.move(retractpos, hi.retract_speed)
retract_move ==
    /\ hr.pc = "retract"
    /\ commanded_pos' = retractpos(hr_axis, hr.retract_dist)
    /\ move_count' = move_count + 1
    /\ last_move' = <<retractpos(hr_axis, hr.retract_dist), retract_speed>>
    /\ hr_called("retract_set", "move", "retract_speed")
    /\ last_cmd' = [name |-> "retract_move"]
    /\ UNCHANGED <<limits, last_position, base_position, stepper_positions>>
    /\ HomeRailsRest

\* self.toolhead.set_position(startpos) before the second homing move
retract_set_position ==
    /\ hr.pc = "retract_set"
    /\ hr_set_position(retract_startpos(hr_axis, hr.retract_dist), {})
    /\ hr_called("second_move", "set_position", "")
    /\ last_cmd' = [name |-> "retract_set_position"]
    /\ UNCHANGED <<base_position, move_count, last_move, stepper_positions>>
    /\ HomeRailsRest

still_triggered_ignored(outcome, sps) ==
    IF outcome # "ok" THEN Error("homing_move", "") ELSE no_error

\* The error after the second homing move: its own, or the one raised when
\* hmove.check_no_movement() is not None
still_triggered(outcome, sps) ==
    IF outcome # "ok" THEN Error("homing_move", "")
    ELSE IF check_no_movement(sps, debuginput, NoAxes) # None
         THEN Error("still_triggered",
                    check_no_movement(sps, debuginput, NoAxes))
    ELSE no_error

\* hmove.homing_move(homepos, hi.second_homing_speed) and the check of
\* check_no_movement()
second_homing_move(outcome, overshoot, sps) ==
    /\ hr.pc = "second_move"
    /\ hr_set_position(fill_coord(hr_axis, RAdd(home_axis_homepos(hr_axis),
                                                overshoot)), {})
    /\ stepper_positions' = sps
    /\ hr' = [hr EXCEPT
                !.pc = IF still_triggered(outcome, sps) = no_error THEN "end"
                       ELSE "raised",
                !.error = still_triggered(outcome, sps),
                !.calls = @ \o <<Call("homing_move", "second_homing_speed"),
                                 Call("set_position", "")>>]
    /\ last_cmd' = [name |-> "second_homing_move", outcome |-> outcome]
    /\ UNCHANGED <<base_position, move_count, last_move>>
    /\ HomeRailsRest

\* {sp.stepper_name: sp.trig_pos for sp in hmove.stepper_positions}
trigger_mcu_pos(sps) ==
    {<<sps[k].stepper_name, sps[k].trig_pos>> : k \in DOMAIN sps}

AnyAdjust(adjust_pos) == \E i \in 1..3 : adjust_pos[i] # R(0)

\* flush_step_generation, trigger_mcu_pos, adjust_pos = {} and
\* send_event("homing:home_rails_end"), whose handlers re-base the G-code
\* origin and register the adjustments adjust_pos
home_rails_end(adjust_pos) ==
    /\ hr.pc = "end"
    /\ hr' = [hr EXCEPT
                !.pc = IF AnyAdjust(adjust_pos) THEN "adjust" ELSE "return",
                !.trigger_mcu_pos = trigger_mcu_pos(stepper_positions),
                !.adjust_pos = adjust_pos,
                !.calls = @ \o <<Call("flush_step_generation", ""),
                                 Call("home_rails_end", hr_letter)>>]
    /\ last_position' = reset_last_position_at(is_printer_ready,
                                               position_with_transform,
                                               commanded_pos)
    /\ base_position' = home_rails_end_base(base_position, homing_position,
                                            Range(hr.axes))
    /\ last_cmd' = [name |-> "home_rails_end"]
    /\ UNCHANGED <<commanded_pos, limits, move_count, last_move,
                   stepper_positions>>
    /\ HomeRailsRest

adjusted_position_all_axes(pos, adjust_pos, force_axes) ==
    [i \in DOMAIN pos |-> IF i <= 3 THEN RAdd(pos[i], adjust_pos[i])
                          ELSE pos[i]]

\* "for axis in force_axes: homepos[axis] = newpos[axis]", newpos being
\* kin.calc_position of the commanded positions plus the adjustments
adjusted_position(pos, adjust_pos, force_axes) ==
    [i \in DOMAIN pos |-> IF i \in force_axes THEN RAdd(pos[i], adjust_pos[i])
                          ELSE pos[i]]

\* "if any(self.adjust_pos.values()): ... toolhead.set_position(homepos)"
apply_adjust ==
    /\ hr.pc = "adjust"
    /\ hr_set_position(adjusted_position(commanded_pos, hr.adjust_pos,
                                         {hr_axis}), {})
    /\ hr_called("return", "set_position", "")
    /\ last_cmd' = [name |-> "apply_adjust"]
    /\ UNCHANGED <<base_position, move_count, last_move, stepper_positions>>
    /\ HomeRailsRest

\* home_rails returns to the loop of kin.home
home_rails_return ==
    /\ hr.pc = "return"
    /\ hr' = [hr EXCEPT
                !.pc = IF hr.next < Len(hr.axes) THEN "begin" ELSE "idle",
                !.next = hr.next + 1,
                !.calls = Append(@, Call("return", hr_letter))]
    /\ last_cmd' = [name |-> "home_rails_return"]
    /\ UNCHANGED <<commanded_pos, limits, last_position, base_position,
                   move_count, last_move, stepper_positions>>
    /\ HomeRailsRest

\* The error leaves kin.home and reaches the except clause of home_axes:
\* motor_off() and raise
home_raised ==
    /\ hr.pc = "raised"
    /\ hr' = [hr EXCEPT !.pc = "aborted"]
    /\ motor_off_count' = motor_off_count + home_axes_motor_off(FALSE)
    /\ limits' = motor_off_limits(limits)
    /\ e_limits' = unhomed
    /\ pending_error' = home_axes_error(FALSE, hr.error.kind)
    /\ last_cmd' = [name |-> "home_raised"]
    /\ UNCHANGED <<config, is_printer_ready, modes, homing_position, factors,
                   saved_states, transform, extruders, klippy_state, steps,
                   can_home, g28, debuginput, limits_enabled, hm,
                   commanded_pos, last_position, base_position, move_count,
                   last_move, stepper_positions>>

InitHomeRails ==
    /\ InitGCodeMove
    /\ InitMachine
    /\ can_home = FALSE
    /\ relative_e_restore = FALSE
    /\ axis_names = {"X", "Y", "Z"}

\* The commands before the homing: a move and a G92 that sets the origin
BeforeHoming == hr.pc = "idle" /\ hr.calls = <<>> /\ steps < MaxSteps - 1

NextHomeRails ==
    \/ BeforeHoming /\ handle_ready
    \/ \E params \in HomingG1Inputs : BeforeHoming /\ cmd_G1(params)
    \/ BeforeHoming /\ cmd_G92(NoParams)
    \/ \E axes \in HomeAxes, retract_dist \in RetractDists :
          home(axes, retract_dist)
    \/ home_rails_begin
    \/ force_position
    \/ \E outcome \in HomeRailsOutcomes, overshoot \in Overshoots :
          /\ hr.pc = "homing_move"
          /\ \E sps \in RailStepperPositions(hr_axis) :
                first_homing_move(outcome, overshoot, sps)
    \/ retract_move
    \/ retract_set_position
    \/ \E outcome \in HomeRailsOutcomes, overshoot \in Overshoots :
          /\ hr.pc = "second_move"
          /\ \E sps \in RailStepperPositions(hr_axis) :
                second_homing_move(outcome, overshoot, sps)
    \/ \E adjust_pos \in AdjustPositions : home_rails_end(adjust_pos)
    \/ apply_adjust
    \/ home_rails_return
    \/ home_raised

SpecHomeRails == InitHomeRails /\ [][NextHomeRails]_vars


\* The retract move was made and the position was set for the second
\* homing move, which has not started
Retracted == hr.pc = "second_move"

\* The home position backed off by min(1, retract_dist / move_d) of the
\* homing vector, times times
BackedOff(times) ==
    LET axes_d == RSub(home_axis_homepos(hr_axis), home_axis_forcepos(hr_axis))
        ratio == RDiv(hr.retract_dist, RAbs(axes_d))
        r == IF RLeq(R(1), ratio) THEN R(1) ELSE ratio
    IN RSub(home_axis_homepos(hr_axis), RMul(R(times), RMul(axes_d, r)))

\* The second homing move went to the home position
SecondMoveHome ==
    (hr.pc \in {"end", "raised"} /\ hr.retract_dist # R(0)
        /\ hr.calls[Len(hr.calls) - 1] = Call("homing_move",
                                              "second_homing_speed")) =>
       \E overshoot \in Overshoots :
          commanded_pos[hr_axis] = RAdd(home_axis_homepos(hr_axis), overshoot)

\* C37 as stated: with retract_dist > 0 the retract position is the home
\* position backed off along the homing vector by min(1, retract_dist /
\* move_d); the toolhead moves there, and the position set on the toolhead
\* before the second homing move is that retract position (endstop 200,
\* forced start -100, retract 5: move to 195, position set to 195, second
\* homing move to 200).
C37_PositionSetToRetractPos ==
    /\ Retracted =>
          /\ last_move = <<fill_coord(hr_axis, BackedOff(1)), retract_speed>>
          /\ commanded_pos = fill_coord(hr_axis, BackedOff(1))
    /\ SecondMoveHome

\* C37, amended: with retract_dist > 0 the retract position is the home
\* position backed off along the homing vector by r = min(1, retract_dist /
\* move_d); the toolhead moves there, and the position set on the toolhead
\* before the second homing move is the retract position backed off by r
\* once more (endstop 200, forced start -100, retract 5: move to 195,
\* position set to 190, second homing move to 200).
C37_PositionSetBehindRetractPos ==
    /\ Retracted =>
          /\ last_move = <<fill_coord(hr_axis, BackedOff(1)), retract_speed>>
          /\ commanded_pos = fill_coord(hr_axis, BackedOff(2))
    /\ SecondMoveHome

C37_Witness ==
    /\ Retracted
    /\ hr_axis = 1
    /\ hr.retract_dist = R(5)
    /\ last_move[1][1] = R(195)
    /\ commanded_pos[1] = R(190)



\* The entries of hr.calls of the home_rails call that is running or ran
\* last: those from its home_rails_begin on
ThisCall ==
    LET begins == {k \in DOMAIN hr.calls : hr.calls[k].op = "home_rails_begin"}
        from == CHOOSE k \in begins : \A j \in begins : j <= k
    IN SubSeq(hr.calls, from, Len(hr.calls))

\* The second homing move returned without an error and left no stepper of
\* the rail moved: home_rails raised the error that names the endstop
StillTriggeredRaises ==
    (last_cmd.name = "second_homing_move" /\ last_cmd.outcome = "ok"
        /\ \A k \in DOMAIN stepper_positions :
              stepper_positions[k].start_pos = stepper_positions[k].trig_pos)
       => /\ hr.pc = "raised"
          /\ hr.error = Error("still_triggered",
                              stepper_positions[1].endstop_name)

\* A home_rails call that raised published no homing:home_rails_end
RaisedWithoutEndEvent ==
    hr.pc = "raised" =>
       /\ hr.error # no_error
       /\ \A k \in DOMAIN ThisCall :
             ThisCall[k].op \notin {"flush_step_generation", "home_rails_end"}

\* Once homing began, only the step that publishes homing:home_rails_end
\* changes base_position or trigger_mcu_pos
OnlyEndEventRecords ==
    (/\ hr.calls # <<>>
     /\ \/ base_position' # base_position
        \/ hr'.trigger_mcu_pos # hr.trigger_mcu_pos)
       => /\ last_cmd'.name = "home_rails_end"
          /\ hr.pc = "end"
          /\ hr'.calls[Len(hr'.calls)] = Call("home_rails_end", hr_letter)

\* C38: if after the retract and the second homing move no stepper of the
\* rail moved before the trigger, home_rails raises 'Endstop <name> still
\* triggered after retract'; whenever home_rails raises, in this or any
\* earlier step, homing:home_rails_end is not published for that call, so
\* base_position is not re-based and no trigger positions are recorded for
\* it.
C38_StillTriggeredAfterRetract ==
    /\ [](StillTriggeredRaises /\ RaisedWithoutEndEvent)
    /\ [][OnlyEndEventRecords]_vars

C38_Witness ==
    /\ hr.pc = "raised"
    /\ hr.error = Error("still_triggered", "stepper_x")
    /\ hr.retract_dist = R(5)
    /\ base_position # homing_position
    /\ hr.trigger_mcu_pos = {}
    /\ "home_rails_end" \notin {hr.calls[k].op : k \in DOMAIN hr.calls}



\* The event published last before entry k of hr.calls, "none" if none was
RECURSIVE EventBefore(_)
EventBefore(k) ==
    IF k <= 1 THEN "none"
    ELSE IF hr.calls[k - 1].op \in {"home_rails_begin", "home_rails_end"}
         THEN hr.calls[k - 1].op
    ELSE EventBefore(k - 1)

SetPositionCalls == {k \in DOMAIN hr.calls : hr.calls[k].op = "set_position"}

\* The toolhead.set_position that follows homing:home_rails_end directly
AdjustPatches ==
    {k \in SetPositionCalls : hr.calls[k - 1].op = "home_rails_end"}

\* C39 as stated: within one home_rails call, homing:home_rails_begin is
\* published before the position is forced to the start position, and
\* homing:home_rails_end after the final position correction of the call:
\* no toolhead.set_position of the call happens before the begin event or
\* after the end event, the patch that applies the adjustments of the
\* event handlers included.
C39_SetPositionsBetweenEvents ==
    \A k \in SetPositionCalls : EventBefore(k) = "home_rails_begin"

\* Every toolhead.set_position of a call follows its begin event, and only
\* the patch of the adjustments follows its end event
SetPositionsOfCall ==
    /\ \A k \in SetPositionCalls \ AdjustPatches :
          EventBefore(k) = "home_rails_begin"
    /\ \A k \in SetPositionCalls :
          EventBefore(k) = "home_rails_end" => k \in AdjustPatches
    /\ hr.pc = "adjust" => AnyAdjust(hr.adjust_pos)
    /\ (hr.pc = "return" /\ ~AnyAdjust(hr.adjust_pos)) =>
          hr.calls[Len(hr.calls)].op = "home_rails_end"

\* The patch is made when a handler registered an adjustment, and moves
\* only the axis being homed, by the adjustment of its rail
PatchOnlyHomedAxes ==
    (/\ hr.calls # <<>>
     /\ hr.calls[Len(hr.calls)].op = "home_rails_end"
     /\ Len(hr'.calls) > Len(hr.calls)
     /\ hr'.calls[Len(hr'.calls)].op = "set_position")
       => /\ AnyAdjust(hr.adjust_pos)
          /\ \A i \in DOMAIN commanded_pos :
                commanded_pos'[i] =
                   IF i = hr_axis
                   THEN RAdd(commanded_pos[i], hr.adjust_pos[i])
                   ELSE commanded_pos[i]

\* C39, amended: within one home_rails call, homing:home_rails_begin is
\* published before the position is forced to the start position, and
\* homing:home_rails_end after the position corrections of the homing
\* moves; no toolhead.set_position of the call happens before the begin
\* event, and the only one after the end event is the patch that applies
\* the adjustments registered by the handlers of that event, made when
\* some adjustment is not zero, which changes only the axis being homed.
C39_OnlyAdjustPatchAfterEndEvent ==
    /\ []SetPositionsOfCall
    /\ [][PatchOnlyHomedAxes]_vars

C39_Witness ==
    /\ last_cmd.name = "apply_adjust"
    /\ hr.axes = <<1, 3>>
    /\ hr_axis = 1
    /\ hr.adjust_pos[1] = Rat(1, 10)
    /\ commanded_pos[1] = RAdd(home_axis_homepos(1), Rat(1, 10))
    /\ AdjustPatches # {}



\* The begin events of the home_rails calls made so far
BeginCalls == SelectSeq(hr.calls, LAMBDA c : c.op = "home_rails_begin")

\* Entry k of hr.calls lies inside a home_rails call: a begin event comes
\* before it with no return in between
RECURSIVE InsideCall(_)
InsideCall(k) ==
    IF k <= 1 THEN FALSE
    ELSE IF hr.calls[k - 1].op = "home_rails_begin" THEN TRUE
    ELSE IF hr.calls[k - 1].op = "return" THEN FALSE
    ELSE InsideCall(k - 1)

\* The home_rails calls are made for the axes of the list, in its order
InListOrder ==
    /\ Len(BeginCalls) <= Len(hr.axes)
    /\ \A k \in DOMAIN BeginCalls :
          BeginCalls[k].arg = axis_list[hr.axes[k]]

\* A home_rails call begins when none is running, and everything else,
\* its return included, happens inside a call
OneAtATime ==
    \A k \in DOMAIN hr.calls :
        IF hr.calls[k].op = "home_rails_begin" THEN ~InsideCall(k)
        ELSE /\ InsideCall(k)
             /\ hr.calls[k].op = "return" =>
                   /\ hr.calls[k].arg = axis_list[hr.axes[
                         Len(SelectSeq(SubSeq(hr.calls, 1, k),
                                LAMBDA c : c.op = "home_rails_begin"))]]
                   /\ \E j \in 1..(k - 1) :
                         hr.calls[j] = Call("home_rails_end", hr.calls[k].arg)

\* The steppers a homing move reported are those of the rail of the axis
\* of the call, and the forced position marks only that axis as homed
SingleRail ==
    (hr.pc \in {"retract", "retract_set", "second_move", "end", "adjust",
                "return"}) =>
       LET axis == hr.axes[Len(BeginCalls)]
       IN /\ \E steppers \in RailSteppers(axis) :
                /\ DOMAIN stepper_positions = DOMAIN steppers
                /\ \A i \in DOMAIN steppers :
                      stepper_positions[i].stepper_name = steppers[i]
          /\ \A i \in 1..3 :
                (limits[i] # unhomed) =>
                   \E k \in 1..Len(BeginCalls) : hr.axes[k] = i

\* An error ends the homing: the axes after the one that failed get no
\* home_rails call
ErrorAborts ==
    /\ hr.error # no_error <=> hr.pc \in {"raised", "aborted"}
    /\ hr.pc \in {"raised", "aborted"} =>
          /\ Len(BeginCalls) = hr.next
          /\ hr.calls[Len(hr.calls)].op # "return"
    /\ hr.pc = "aborted" =>
          /\ pending_error = hr.error.kind
          /\ motor_off_count = 1

NothingAfterError ==
    hr.pc \in {"raised", "aborted"} =>
       /\ hr'.calls = hr.calls
       /\ hr'.pc = "aborted"

\* C40: axes are homed one at a time and in the order of the homing
\* state's axis list: the home_rails call of one axis (its begin event,
\* homing moves and end event) completes before the home_rails call of the
\* next axis begins, each call homes a single rail, and a command error
\* while homing one axis aborts the command so that no later axis is homed.
C40_OneAxisAtATimeInOrder ==
    /\ [](InListOrder /\ OneAtATime /\ SingleRail /\ ErrorAborts)
    /\ [][NothingAfterError]_vars

\* X was homed and its call returned before the call for Z began
C40_Witness ==
    /\ hr.axes = <<1, 3>>
    /\ hr.next = 2
    /\ hr.pc = "return"
    /\ BeginCalls = <<Call("home_rails_begin", "X"),
                      Call("home_rails_begin", "Z")>>
    /\ \E k \in DOMAIN hr.calls :
          /\ hr.calls[k] = Call("return", "X")
          /\ hr.calls[k + 1] = Call("home_rails_begin", "Z")
    /\ hr.calls[Len(hr.calls)] = Call("home_rails_end", "Z")
    /\ limits[1] # unhomed
    /\ limits[3] # unhomed

\* The homing of X failed and Z was never begun
C40_WitnessAborted ==
    /\ hr.pc = "aborted"
    /\ hr.axes = <<1, 3>>
    /\ hr.next = 1
    /\ BeginCalls = <<Call("home_rails_begin", "X")>>
    /\ pending_error = "still_triggered"
    /\ motor_off_count = 1

====
